---- MODULE Spec2Model ----
(***************************************************************************)
(* Price discovery and caching subsystem of the Mandi platform.            *)
(*                                                                         *)
(* Adapter level: GovernmentMarketDataAdapter (HTTP client with retry),    *)
(* MarketDataCache (Redis store) and CachedMarketDataAdapter (the fallback *)
(* orchestrator).  One adapter call is in flight at a time; the HTTP       *)
(* source, the Redis client and the clock are the environment.             *)
(*                                                                         *)
(* Units: the clock counts ticks of HoursPerTick hours, tick 0 being local *)
(* midnight; prices are in hundredths of a rupee.                          *)
(***************************************************************************)
EXTENDS Integers, Sequences, FiniteSets, TLC

\* ------------------------------------------------------------------ bounds
MaxClock == 1
HoursPerTick == 6
MaxRecords == 2

\* ------------------------------------------------------- program constants
MaxRetries == 3
MaxConnectionRetries == 5
PriceTtl == 1800
HistoricalTtl == PriceTtl * 2
MetadataTtl == 86400
HealthTtl == 300

\* --------------------------------------------------------------- utilities
RECURSIVE Pow(_, _)
Pow(b, e) == IF e <= 0 THEN 1 ELSE b * Pow(b, e - 1)

SeqsUpTo(S, n) == UNION { [1..k -> S] : k \in 0..n }

MapSeq(s, F(_)) == [i \in 1..Len(s) |-> F(s[i])]

\* ------------------------------------------------------ requests (inputs)
Locations == {"Delhi"}
Products == {"Onion"}
ReqDates == {0}
ReqDays == {30}

Ops == {"fetchMandiPrices", "getHistoricalData", "getSupportedLocations",
        "getSupportedProducts", "checkApiHealth"}

NoReq == [location |-> "", date |-> 0, product |-> "", days |-> 0]

Requests(o) ==
  IF o = "fetchMandiPrices"
    THEN { [location |-> l, date |-> d, product |-> "", days |-> 0] :
             l \in Locations, d \in ReqDates }
  ELSE IF o = "getHistoricalData"
    THEN { [location |-> l, date |-> 0, product |-> p, days |-> n] :
             l \in Locations, p \in Products, n \in ReqDays }
  ELSE { NoReq }

\* ------------------------------------------------- strings, dates, keys
\* String.toLowerCase followed by replace(/\s+/g, '-'), on the strings used.
NormalizeKeyPart(s) ==
  CASE s = "Delhi" -> "delhi"
    [] s = "New Delhi" -> "new-delhi"
    [] s = "Onion" -> "onion"
    [] OTHER -> s

\* Date.toISOString / new Date(string): an instant and its ISO string.
ToISOString(d) == <<"iso", d>>

\* Variant: only the calendar day of the string is read.
ParseISODateDayOnly(s) ==
  ((((s[2] * HoursPerTick) \div 24) * 24) \div HoursPerTick)

ParseISODate(s) == s[2]

\* date.toISOString().split('T')[0]: the calendar day of an instant.
DateStr(d) == "day" \o ToString((d * HoursPerTick) \div 24)

GenerateMandiPricesKey(location, date) ==
  "mandi:prices:" \o NormalizeKeyPart(location) \o ":" \o DateStr(date)

GenerateHistoricalDataKey(product, location, days) ==
  "mandi:historical:" \o NormalizeKeyPart(product) \o ":"
     \o NormalizeKeyPart(location) \o ":" \o ToString(days)

LocationsKey == "mandi:locations:all"
ProductsKey == "mandi:products:all"
HealthKey == "mandi:health:status"

KeyOf(o, r) ==
  CASE o = "fetchMandiPrices" -> GenerateMandiPricesKey(r.location, r.date)
    [] o = "getHistoricalData" ->
         GenerateHistoricalDataKey(r.product, r.location, r.days)
    [] o = "getSupportedLocations" -> LocationsKey
    [] o = "getSupportedProducts" -> ProductsKey
    [] OTHER -> HealthKey

CacheKeys == UNION { { KeyOf(o, r) : r \in Requests(o) } : o \in Ops }

\* Variant: the health status is kept as long as the catalogs.
TtlOfCatalogs(o) ==
  CASE o = "fetchMandiPrices" -> PriceTtl
    [] o = "getHistoricalData" -> HistoricalTtl
    [] OTHER -> MetadataTtl

TtlOf(o) ==
  CASE o = "fetchMandiPrices" -> PriceTtl
    [] o = "getHistoricalData" -> HistoricalTtl
    [] o = "checkApiHealth" -> HealthTtl
    [] OTHER -> MetadataTtl

\* ------------------------------------------------------- default catalogs
DefaultLocations ==
  <<"Delhi", "Mumbai", "Bangalore", "Chennai", "Kolkata", "Hyderabad",
    "Pune", "Ahmedabad", "Jaipur", "Lucknow">>

DefaultProducts ==
  <<"Rice", "Wheat", "Onion", "Potato", "Tomato", "Garlic", "Ginger",
    "Turmeric", "Coriander", "Cumin">>

\* ------------------------------------------- HTTP responses (environment)
\* A raw price is a JSON number or a string; a raw date is a parseable
\* string or not.
RawPrices ==
  { [kind |-> "number", num |-> 0, text |-> ""],
    [kind |-> "string", num |-> 0, text |-> "Rs 25.50"] }

\* Ages, in ticks, of the dated records the source serves; a record whose
\* date does not parse is dated at the time of the response.
RawAges == {1}

RawDates(t) ==
  { [valid |-> TRUE, at |-> t - a] : a \in RawAges }
    \cup { [valid |-> FALSE, at |-> 0] }

RawPriceRecords(t) ==
  { [commodity |-> c, price |-> p, date |-> d] :
      c \in Products, p \in RawPrices, d \in RawDates(t) }

RawHistoricalRecords(t) ==
  { [commodity |-> "", price |-> p, date |-> [valid |-> TRUE, at |-> t],
     quantity |-> 100] :
      p \in { [kind |-> "number", num |-> 2000, text |-> ""],
              [kind |-> "number", num |-> 0, text |-> ""] } }

RawCatalogRecords == { [name |-> "Agra"], [name |-> ""] }

\* The body is an array, an object wrapping the array under `records` or
\* `data`, or an object holding no array at all.
Bodies(recs) ==
  { [shape |-> s, records |-> r] :
      s \in {"array", "records", "data"}, r \in SeqsUpTo(recs, MaxRecords) }
    \cup { [shape |-> "object", records |-> <<>>] }

HealthBodies == { [shape |-> "object", status |-> s] : s \in {"ok", "down"} }

ResponseBodies(o, t) ==
  CASE o = "fetchMandiPrices" -> Bodies(RawPriceRecords(t))
    [] o = "getHistoricalData" -> Bodies(RawHistoricalRecords(t))
    [] o = "checkApiHealth" -> HealthBodies
    [] OTHER -> Bodies(RawCatalogRecords)

FailureKinds == {"http4xx", "http5xx", "network"}

\* ---------------------------------- GovernmentMarketDataAdapter: parsing
ParseFloatCleaned(text) ==
  CASE text = "Rs 25.50" -> 2550
    [] OTHER -> 0

ParsePrice(raw) ==
  IF raw.kind = "number" THEN raw.num
  ELSE IF raw.kind = "string" THEN ParseFloatCleaned(raw.text)
  ELSE 0

ParseDate(raw, t) == IF raw.valid THEN raw.at ELSE t

IsArrayBody(body) == body.shape \in {"array", "records", "data"}

ParseMandiPricesResponse(body, location, t) ==
  IF ~IsArrayBody(body) THEN <<>>
  ELSE SelectSeq(
         MapSeq(body.records,
                LAMBDA r : [product |-> r.commodity, location |-> location,
                            price |-> ParsePrice(r.price),
                            date |-> ParseDate(r.date, t),
                            source |-> "government_api", verified |-> TRUE]),
         LAMBDA p : p.price > 0)

ParseHistoricalPricesResponse(body, location, t) ==
  IF ~IsArrayBody(body) THEN <<>>
  ELSE SelectSeq(
         MapSeq(body.records,
                LAMBDA r : [date |-> ParseDate(r.date, t),
                            price |-> ParsePrice(r.price),
                            volume |-> r.quantity, location |-> location]),
         LAMBDA p : p.price > 0)

ParseCatalogNames(body) ==
  SelectSeq(MapSeq(body.records, LAMBDA r : r.name), LAMBDA n : n # "")

ParseLocationsResponse(body) ==
  IF ~IsArrayBody(body) THEN DefaultLocations ELSE ParseCatalogNames(body)

ParseProductsResponse(body) ==
  IF ~IsArrayBody(body) THEN DefaultProducts ELSE ParseCatalogNames(body)

\* What the adapter method returns for a successful response.
GovOnSuccess(o, r, body, t) ==
  CASE o = "fetchMandiPrices" -> ParseMandiPricesResponse(body, r.location, t)
    [] o = "getHistoricalData" ->
         ParseHistoricalPricesResponse(body, r.location, t)
    [] o = "getSupportedLocations" -> ParseLocationsResponse(body)
    [] o = "getSupportedProducts" -> ParseProductsResponse(body)
    [] OTHER -> body.status = "ok"

\* A variable holding no value yet: an empty list, or false for the health
\* status, so that each variable keeps one type throughout a run.
NoValue(o) == IF o = "checkApiHealth" THEN FALSE ELSE <<>>

\* Variant: every catch block returns an empty array, the catalogs' too.
GovFallbackValueEmpty(o) == NoValue(o)

\* The value each adapter method returns from its catch block.
GovFallbackValue(o) ==
  CASE o = "getSupportedLocations" -> DefaultLocations
    [] o = "getSupportedProducts" -> DefaultProducts
    [] o = "checkApiHealth" -> FALSE
    [] OTHER -> <<>>

\* Variant: the catch block rethrows instead of returning a fallback value.
GovOnFailureRethrows(o) == [threw |-> TRUE, value |-> NoValue(o)]

\* The catch block of each adapter method, entered when the request throws.
GovOnFailure(o) == [threw |-> FALSE, value |-> GovFallbackValue(o)]

\* makeRequestWithRetry: after a failed attempt, is another one made?
\* checkApiHealth issues a single GET outside the retry loop.
IsClientError(kind) == kind = "http4xx"

\* Variant: the loop bound is `attempt <= maxRetries + 1`.
RetriesAfterOneMore(o, attemptNo, kind) ==
  /\ o # "checkApiHealth"
  /\ ~IsClientError(kind)
  /\ attemptNo < MaxRetries + 1

RetriesAfter(o, attemptNo, kind) ==
  /\ o # "checkApiHealth"
  /\ ~IsClientError(kind)
  /\ attemptNo < MaxRetries

\* Variant: the exponent is `attempt` instead of `attempt - 1`.
BackoffSecondsOffByOne(attemptNo) == Pow(2, attemptNo)

BackoffSeconds(attemptNo) == Pow(2, attemptNo - 1)

\* ------------------------------------------------------ freshness checks
AgeHours(data, t) == (t - data.date) * HoursPerTick

HourOfDay(t) == (t * HoursPerTick) % 24

GovValidateDataFreshness(data, t) ==
  /\ AgeHours(data, t) < 24
  /\ data.verified
  /\ data.price > 0

CachedValidateDataFreshness(data, t) ==
  IF ~GovValidateDataFreshness(data, t) THEN FALSE
  ELSE LET maxAgeHours == IF HourOfDay(t) >= 6 /\ HourOfDay(t) <= 18
                            THEN 6 ELSE 12
       IN AgeHours(data, t) < maxAgeHours

FreshData(cachedList, t) ==
  SelectSeq(cachedList, LAMBDA p : CachedValidateDataFreshness(p, t))

\* ------------------------------------------- MarketDataCache: (de)serialize
NoEntry == [present |-> FALSE]

\* A stored string that is not the JSON this class writes.
UnparseableEntry ==
  [present |-> TRUE, parseable |-> FALSE, payload |-> <<>>,
   cachedAt |-> ToISOString(0), ttl |-> 0]

SerializeDated(list) == MapSeq(list, LAMBDA p : [p EXCEPT !.date = ToISOString(@)])
ReviveDated(list) == MapSeq(list, LAMBDA p : [p EXCEPT !.date = ParseISODate(@)])

\* JSON.stringify of the payload with its cachedAt stamp, stored by setEx.
Serialize(o, value, t) ==
  [present |-> TRUE, parseable |-> TRUE,
   payload |-> IF o \in {"fetchMandiPrices", "getHistoricalData"}
                 THEN SerializeDated(value) ELSE value,
   cachedAt |-> ToISOString(t),
   ttl |-> TtlOf(o)]

\* JSON.parse of a stored entry and revival of its dates.
Deserialize(o, entry) ==
  IF o \in {"fetchMandiPrices", "getHistoricalData"}
    THEN ReviveDated(entry.payload) ELSE entry.payload

\* `null`, the result of a cache read that found nothing.
Miss(o) == [hit |-> FALSE, value |-> NoValue(o)]

\* getCached*: null when not connected, on a command error, on a miss, or
\* when JSON.parse or the reading of the parsed value throws.
CacheGet(o, key, st, connected, fault) ==
  IF ~connected THEN Miss(o)
  ELSE IF fault THEN Miss(o)
  ELSE IF ~st[key].present THEN Miss(o)
  ELSE IF ~st[key].parseable THEN Miss(o)
  ELSE [hit |-> TRUE, value |-> Deserialize(o, st[key])]

\* cache*: no-op when not connected or when setEx fails.
CacheSet(o, key, value, t, st, connected, fault) ==
  IF ~connected THEN st
  ELSE IF fault THEN st
  ELSE [st EXCEPT ![key] = Serialize(o, value, t)]

\* ------------------------------------- CachedMarketDataAdapter: decisions
\* `if (cached && cached.length > 0)` plus, for prices, the freshness filter;
\* `if (cached !== null)` for the health status.
\* Variant: the freshness filter is skipped.
IsUsableHitAnyAge(o, c, t) ==
  IF o = "checkApiHealth" THEN c.hit ELSE c.hit /\ Len(c.value) > 0

IsUsableHit(o, c, t) ==
  CASE o = "checkApiHealth" -> c.hit
    [] o = "fetchMandiPrices" -> c.hit /\ Len(c.value) > 0
                                   /\ Len(FreshData(c.value, t)) > 0
    [] OTHER -> c.hit /\ Len(c.value) > 0

HitValue(o, c, t) ==
  IF o = "fetchMandiPrices" THEN FreshData(c.value, t) ELSE c.value

\* Variant: `if (apiData.length > 1)`.
ShouldCacheSeveral(o, value) ==
  IF o = "checkApiHealth" THEN TRUE ELSE Len(value) > 1

\* `if (apiData.length > 0)` before caching; the health status is always cached.
ShouldCache(o, value) ==
  IF o = "checkApiHealth" THEN TRUE ELSE Len(value) > 0

\* The value of the last `return` of each catch block.
EmptyResult(o) == IF o = "checkApiHealth" THEN FALSE ELSE <<>>

\* The catch block: a second cache read, ignoring freshness.
FallbackResult(o, c) ==
  IF o = "checkApiHealth"
    THEN (IF c.hit THEN c.value ELSE FALSE)
    ELSE (IF c.hit /\ Len(c.value) > 0 THEN c.value ELSE EmptyResult(o))


\* ================================================================= state
VARIABLES
  clock,              \* current time, in ticks
  client,             \* the adapter method this run's caller keeps calling
  store,              \* Redis: key -> stored entry
  cacheFault,         \* Redis commands currently fail (environment)
  isConnected,        \* MarketDataCache.isConnected
  connectionRetries,  \* MarketDataCache.connectionRetries
  retryTimer,         \* a setTimeout(() => this.connect()) is pending
  isInitialized,      \* CachedMarketDataAdapter.isInitialized
  pc,                 \* position of the adapter call in flight
  op,                 \* its method
  req,                \* its arguments
  cached,             \* `cached`: result of the first cache lookup
  attempt,            \* `attempt` of makeRequestWithRetry
  attemptLog,         \* outcome of each HTTP attempt of this call
  waits,              \* backoff delays (seconds) of this call
  srcOutcome,         \* "none", "ok" or "failed": how the source request ended
  apiThrew,           \* the GovernmentMarketDataAdapter method rejected
  apiData,            \* value the GovernmentMarketDataAdapter method returned
  result,             \* value the call resolved with
  outcome,            \* "pending", "resolved" or "rejected"
  cacheReads,         \* cache get calls made by this call
  cacheWrites,        \* cache set calls made by this call
  srcCalls,           \* calls of the source adapter made by this call
  cacheUp             \* some cache command of this call reached a working store

cacheVars == <<store, cacheFault, isConnected, connectionRetries, retryTimer,
               isInitialized>>
callVars == <<pc, op, req, cached, attempt, attemptLog, waits, srcOutcome,
              apiThrew, apiData, result, outcome, cacheReads, cacheWrites,
              srcCalls, cacheUp>>
adapterVars == <<clock, client, cacheVars, callVars>>

\* PriceDiscoveryService, built on a MarketDataAdapter and an AIService.
VARIABLES
  nowMin,             \* Date.now(), in minutes since local midnight
  adapterKind,        \* the injected MarketDataAdapter: "cached" or "mock"
  priceCache,         \* priceCache: cache key -> [data, timestamp]
  lastResolved,       \* per (name, category, location): the result last
                      \* computed and cached, and when; none after cleanup()
  svcPc,              \* position of the call in flight
  svcOp,              \* the operation called: "getCurrentPrice", ...
  svcDays,            \* `days` of getPriceHistory, in tenths of a day
  query,              \* its ProductQuery
  matchingPrice,      \* `matchingPrice` of getCurrentPrice: the first record
                      \* of the fetched list that matches the query, if any
  historicalData,     \* `historicalData` (prices, in paise, oldest first)
  estimatedPrice,     \* the EstimatedPrice estimatePrice returned
  priceInfo,          \* `priceInfo` before formatPriceInfo
  priceHistory,       \* the PriceHistory getPriceHistory returned
  marketSentiment,    \* the MarketSentiment getMarketSentiment returned
  adapterThrew,       \* a market-data adapter method rejected
  aiThrew,            \* the AI service method called rejected
  svcResult,          \* PriceInfo the call resolved with
  svcOutcome,         \* "pending", "resolved" or "rejected"
  svcError,           \* message of the error the call rejected with
  adapterCalls,       \* market-data adapter calls made by this call
  aiCalls             \* AI service calls made by this call

svcCallVars == <<svcPc, svcOp, svcDays, query, matchingPrice, historicalData,
                 estimatedPrice, priceInfo, priceHistory, marketSentiment,
                 adapterThrew, aiThrew, svcResult, svcOutcome, svcError,
                 adapterCalls, aiCalls>>
svcVars == <<nowMin, adapterKind, priceCache, lastResolved, svcCallVars>>

\* validateDataFreshness(data) of the three adapters, called on its own.
VARIABLES
  vNow,               \* `new Date()`, in minutes since local midnight
  vData,              \* the MandiPrice argument
  vPc,                \* "idle", "call" or "done"
  vFresh              \* what each adapter's validateDataFreshness returned

freshVars == <<vNow, vData, vPc, vFresh>>

\* ---- calculateTrend, applied to one series of prices
VARIABLES
  tPrices,            \* the prices, in paise, oldest first
  tPc,                \* "call" before the call, "done" after it
  tTrend              \* what calculateTrend returned

trendVars == <<tPrices, tPc, tTrend>>

\* ---- validatePriceData, applied to one PriceInfo
VARIABLES
  vpInfo,             \* the PriceInfo (paise, hundredths, minutes)
  vpNow,              \* Date.now() during the call, in minutes
  vpPc,               \* "call" before the call, "done" after it
  vpValid             \* `isValid` of what validatePriceData returned

validVars == <<vpInfo, vpNow, vpPc, vpValid>>

\* ---- MarketDataCache, called directly
VARIABLES
  mcCall,             \* the method called last, its key, whether the cache
                      \* was connected and whether its try block threw
  mcReturned,         \* what it resolved with (`null` as a miss)
  mcOutcome,          \* "resolved" or "rejected"
  mcCommands,         \* the commands that call issued to the Redis client
  retryTimers,        \* setTimeout(() => this.connect()) callbacks pending
  retryDelays         \* their delays, in seconds, since the last success

mcVars == <<mcCall, mcReturned, mcOutcome, mcCommands, retryTimers, retryDelays>>

\* ---- two getCurrentPrice calls for one key
VARIABLES
  calls,              \* per call: position, fetchMandiPrices calls made,
                      \* outcome, PriceInfo resolved with, time of completion
  completed,          \* the calls in the order they completed
  overlapped          \* a call started while the other was in flight

overlapVars == <<calls, completed, overlapped>>

\* ---- getCurrentPrice, with the list fetchMandiPrices resolved with
VARIABLES
  mandiPrices         \* `mandiPrices` of getCurrentPrice

matchVars == <<mandiPrices>>

\* ---- CachedMarketDataAdapter: calls that overlap during initialization
VARIABLES
  callers,            \* per caller: the method called and its position
  cacheConnects,      \* `this.cache.connect()` calls made by initialize()
  clientConnects,     \* `this.client.connect()` calls made
  connectedAtConnect  \* some `this.client.connect()` call was made while
                      \* isConnected was set

initVars == <<callers, cacheConnects, clientConnects, connectedAtConnect>>

\* ---- PriceDiscoveryService: cleanup() while a call is in flight
VARIABLES
  cleanedInFlight     \* cleanup() completed while a getCurrentPrice call
                      \* was waiting for the adapter

cleanupVars == <<cleanedInFlight>>

\* ---- MarketDataFactory
VARIABLES
  testEnvironment,    \* `isTestEnvironment`
  instance,           \* MarketDataFactory.instance (`null` as NoAdapter)
  adaptersMade,       \* adapters constructed so far
  getCalls,           \* per getInstance call: position, the adapter being
                      \* created, the adapter resolved with
  madeSinceReset,     \* adapters constructed since the last resetInstance()
  resolvedSinceReset  \* adapters getInstance calls resolved with since then

factoryVars == <<testEnvironment, instance, adaptersMade, getCalls,
                 madeSinceReset, resolvedSinceReset>>
extraVars == <<matchVars, initVars, cleanupVars, factoryVars>>
pureVars == <<freshVars, trendVars, validVars, mcVars, overlapVars, extraVars>>
vars == <<adapterVars, svcVars, pureVars>>

NoQuery == [name |-> "", category |-> "", location |-> "", quantity |-> 0,
            unit |-> ""]

NoRecord == [product |-> "", location |-> "", price |-> 0, date |-> 0,
             source |-> "", verified |-> FALSE]

\* No validateDataFreshness call is being looked at.
NoValidation ==
  /\ vNow = 0
  /\ vData = NoRecord
  /\ vPc = "idle"
  /\ vFresh = [government |-> FALSE, cached |-> FALSE, mock |-> FALSE]

NoTrendCall ==
  /\ tPrices = <<>>
  /\ tPc = "idle"
  /\ tTrend = "none"

NoPriceInfo == [current |-> 0, minimum |-> 0, maximum |-> 0, average |-> 0,
                confidence |-> 0, source |-> "none", lastUpdated |-> 0]

NoPriceCheck ==
  /\ vpInfo = NoPriceInfo
  /\ vpNow = 0
  /\ vpPc = "idle"
  /\ vpValid = FALSE

NotCalled ==
  [pc |-> "idle", fetches |-> 0, outcome |-> "pending", result |-> NoPriceInfo,
   doneAt |-> 0]

NoOverlap ==
  /\ calls = [c \in 1..2 |-> NotCalled]
  /\ completed = <<>>
  /\ overlapped = FALSE

NoFetch == mandiPrices = <<>>

NoCleanup == cleanedInFlight = FALSE

NoAdapter == [id |-> 0, type |-> "none"]

NoGetCall == [pc |-> "idle", creating |-> NoAdapter, resolved |-> NoAdapter]

NoFactory ==
  /\ testEnvironment = FALSE
  /\ instance = NoAdapter
  /\ adaptersMade = 0
  /\ getCalls = [c \in 1..2 |-> NoGetCall]
  /\ madeSinceReset = {}
  /\ resolvedSinceReset = {}

NoCallers ==
  /\ callers = [c \in 1..2 |-> [method |-> "none", pc |-> "idle"]]
  /\ cacheConnects = 0
  /\ clientConnects = 0
  /\ connectedAtConnect = FALSE

NoCacheCall ==
  /\ mcCall = [method |-> "none", key |-> "", connected |-> FALSE, threw |-> FALSE]
  /\ mcReturned = Miss(client)
  /\ mcOutcome = "none"
  /\ mcCommands = 0
  /\ retryTimers = 0
  /\ retryDelays = <<>>

NoEstimate ==
  [current |-> 0, minimum |-> 0, maximum |-> 0, average |-> 0,
   confidence |-> 0, source |-> "none", lastUpdated |-> 0,
   estimationMethod |-> "none", historicalBasis |-> <<>>]

NoPriceHistory == [productId |-> "", location |-> "", prices |-> <<>>,
                   trend |-> "none"]

NoSentiment == [product |-> "", location |-> "", sentiment |-> "none",
                factors |-> <<>>]

SvcNoCall ==
  /\ svcOp = "none"
  /\ svcDays = 0
  /\ query = NoQuery
  /\ matchingPrice = NoRecord
  /\ historicalData = <<>>
  /\ estimatedPrice = NoEstimate
  /\ priceInfo = NoPriceInfo
  /\ priceHistory = NoPriceHistory
  /\ marketSentiment = NoSentiment
  /\ adapterThrew = FALSE
  /\ aiThrew = FALSE
  /\ svcResult = NoPriceInfo
  /\ svcOutcome = "pending"
  /\ svcError = <<>>
  /\ adapterCalls = 0
  /\ aiCalls = 0

\* The service as constructed, before any call.
SvcConstructed ==
  /\ priceCache = <<>>
  /\ lastResolved = <<>>
  /\ svcPc = "idle"
  /\ SvcNoCall

NoCall ==
  /\ op = "none"
  /\ req = NoReq
  /\ cached = Miss(client)
  /\ attempt = 0
  /\ attemptLog = <<>>
  /\ waits = <<>>
  /\ srcOutcome = "none"
  /\ apiThrew = FALSE
  /\ apiData = NoValue(client)
  /\ result = NoValue(client)
  /\ outcome = "pending"
  /\ cacheReads = 0
  /\ cacheWrites = 0
  /\ srcCalls = 0
  /\ cacheUp = FALSE

Init ==
  /\ clock \in 0..MaxClock
  /\ client \in Ops
  /\ store = [k \in CacheKeys |-> NoEntry]
  /\ cacheFault \in BOOLEAN
  /\ isConnected = FALSE
  /\ connectionRetries = 0
  /\ retryTimer = FALSE
  /\ isInitialized = FALSE
  /\ pc = "idle"
  /\ NoCall
  /\ nowMin = 0
  /\ adapterKind = "cached"
  /\ SvcConstructed
  /\ NoValidation
  /\ NoTrendCall
  /\ NoPriceCheck
  /\ NoCacheCall
  /\ NoOverlap
  /\ NoFetch
  /\ NoCallers
  /\ NoCleanup
  /\ NoFactory

\* ------------------------------------------------ MarketDataCache.connect
\* Variant: one retry more.
SchedulesRetryOneMore(retries) == retries <= MaxConnectionRetries + 1

\* `if (this.connectionRetries <= this.maxRetries)`, after the increment.
SchedulesRetry(retries) == retries <= MaxConnectionRetries

\* connectOk: whether client.connect() resolves.
Connect(connectOk) ==
  IF isConnected
    THEN UNCHANGED <<isConnected, connectionRetries, retryTimer>>
  ELSE IF connectOk
    THEN /\ isConnected' = TRUE
         /\ connectionRetries' = 0
         /\ UNCHANGED retryTimer
  ELSE /\ connectionRetries' = connectionRetries + 1
       /\ retryTimer' = (retryTimer \/ SchedulesRetry(connectionRetries + 1))
       /\ UNCHANGED isConnected

\* Redis client events: 'error' / 'end' clear the flag, 'ready' sets it.
ClientDown ==
  /\ isConnected
  /\ isConnected' = FALSE
  /\ UNCHANGED <<clock, client, store, cacheFault, connectionRetries, retryTimer,
                 isInitialized, callVars>>
  /\ UNCHANGED <<svcVars, pureVars>>

ClientReady ==
  /\ isInitialized
  /\ ~isConnected
  /\ isConnected' = TRUE
  /\ UNCHANGED <<clock, client, store, cacheFault, connectionRetries, retryTimer,
                 isInitialized, callVars>>
  /\ UNCHANGED <<svcVars, pureVars>>

\* Redis starts or stops failing commands.
CacheFaultChange ==
  /\ cacheFault' = ~cacheFault
  /\ UNCHANGED <<clock, client, store, isConnected, connectionRetries, retryTimer,
                 isInitialized, callVars>>
  /\ UNCHANGED <<svcVars, pureVars>>

\* Redis drops an entry whose TTL has run out.
TtlExpiry(k) ==
  /\ store[k].present
  /\ store' = [store EXCEPT ![k] = NoEntry]
  /\ UNCHANGED <<clock, client, cacheFault, isConnected, connectionRetries, retryTimer,
                 isInitialized, callVars>>
  /\ UNCHANGED <<svcVars, pureVars>>

\* --------------------------------------------- CachedMarketDataAdapter
\* A method is called: `if (!this.isInitialized) await this.initialize()`.
Start(o, r) ==
  /\ pc = "idle"
  /\ o = client
  /\ \E connectOk \in BOOLEAN :
       IF isInitialized
         THEN UNCHANGED <<isConnected, connectionRetries, retryTimer>>
         ELSE Connect(connectOk)
  /\ isInitialized' = TRUE
  /\ pc' = "lookup"
  /\ op' = o
  /\ req' = r
  /\ UNCHANGED <<clock, client, store, cacheFault, cached, attempt, attemptLog, waits,
                 srcOutcome, apiThrew, apiData, result, outcome, cacheReads,
                 cacheWrites, srcCalls, cacheUp>>
  /\ UNCHANGED <<svcVars, pureVars>>

\* `const cached = await this.cache.getCached...()` and the hit test.
Lookup ==
  /\ pc = "lookup"
  /\ LET c == CacheGet(op, KeyOf(op, req), store, isConnected, cacheFault)
     IN /\ cached' = c
        /\ cacheReads' = cacheReads + 1
        /\ cacheUp' = (isConnected /\ ~cacheFault)
        /\ IF IsUsableHit(op, c, clock)
             THEN /\ pc' = "done"
                  /\ result' = HitValue(op, c, clock)
                  /\ outcome' = "resolved"
                  /\ UNCHANGED <<attempt, srcCalls>>
             ELSE /\ pc' = "request"
                  /\ attempt' = 1
                  /\ srcCalls' = srcCalls + 1
                  /\ UNCHANGED <<result, outcome>>
  /\ UNCHANGED <<clock, client, cacheVars, op, req, attemptLog, waits, srcOutcome,
                 apiThrew, apiData, cacheWrites>>
  /\ UNCHANGED <<svcVars, pureVars>>

\* The adapter method returned `value`: cache it if there is something to
\* cache, else return it.
AfterSource(value) ==
  /\ apiData' = value
  /\ apiThrew' = FALSE
  /\ IF ShouldCache(op, value)
       THEN /\ pc' = "write"
            /\ UNCHANGED <<result, outcome>>
       ELSE /\ pc' = "done"
            /\ result' = value
            /\ outcome' = "resolved"
  /\ UNCHANGED <<cached, cacheReads, cacheUp>>

\* The adapter method rejected: the catch block of the orchestrator.
AfterSourceThrew ==
  /\ apiThrew' = TRUE
  /\ cacheReads' = cacheReads + 1
  /\ cacheUp' = (cacheUp \/ (isConnected /\ ~cacheFault))
  /\ result' = FallbackResult(op, CacheGet(op, KeyOf(op, req), store,
                                           isConnected, cacheFault))
  /\ outcome' = "resolved"
  /\ pc' = "done"
  /\ UNCHANGED <<cached, apiData>>

\* One HTTP attempt of the source request completes.
HttpAttempt ==
  /\ pc = "request"
  /\ \/ \E body \in ResponseBodies(op, clock) :
          /\ attemptLog' = Append(attemptLog, "ok")
          /\ srcOutcome' = "ok"
          /\ AfterSource(GovOnSuccess(op, req, body, clock))
          /\ UNCHANGED waits
     \/ \E kind \in FailureKinds :
          /\ attemptLog' = Append(attemptLog, kind)
          /\ IF RetriesAfter(op, attempt, kind)
               THEN /\ waits' = Append(waits, BackoffSeconds(attempt))
                    /\ pc' = "backoff"
                    /\ UNCHANGED <<srcOutcome, apiThrew, apiData, result,
                                   outcome, cached, cacheReads, cacheUp>>
               ELSE /\ srcOutcome' = "failed"
                    /\ UNCHANGED waits
                    /\ IF GovOnFailure(op).threw
                         THEN AfterSourceThrew
                         ELSE AfterSource(GovOnFailure(op).value)
  /\ UNCHANGED <<clock, client, cacheVars, op, req, attempt, cacheWrites, srcCalls>>
  /\ UNCHANGED <<svcVars, pureVars>>

\* The backoff timer of makeRequestWithRetry elapses.
Backoff ==
  /\ pc = "backoff"
  /\ attempt' = attempt + 1
  /\ pc' = "request"
  /\ UNCHANGED <<clock, client, cacheVars, op, req, cached, attemptLog, waits,
                 srcOutcome, apiThrew, apiData, result, outcome, cacheReads,
                 cacheWrites, srcCalls, cacheUp>>
  /\ UNCHANGED <<svcVars, pureVars>>

\* `await this.cache.cache...(apiData)` and `return apiData`.
WriteThrough ==
  /\ pc = "write"
  /\ store' = CacheSet(op, KeyOf(op, req), apiData, clock, store, isConnected,
                       cacheFault)
  /\ cacheWrites' = cacheWrites + 1
  /\ cacheUp' = (cacheUp \/ (isConnected /\ ~cacheFault))
  /\ result' = apiData
  /\ outcome' = "resolved"
  /\ pc' = "done"
  /\ UNCHANGED <<clock, client, cacheFault, isConnected, connectionRetries, retryTimer,
                 isInitialized, op, req, cached, attempt, attemptLog, waits,
                 srcOutcome, apiThrew, apiData, cacheReads, srcCalls>>
  /\ UNCHANGED <<svcVars, pureVars>>

\* The caller takes the result.
Return ==
  /\ pc = "done"
  /\ pc' = "idle"
  /\ op' = "none"
  /\ req' = NoReq
  /\ cached' = Miss(client)
  /\ attempt' = 0
  /\ attemptLog' = <<>>
  /\ waits' = <<>>
  /\ srcOutcome' = "none"
  /\ apiThrew' = FALSE
  /\ apiData' = NoValue(client)
  /\ result' = NoValue(client)
  /\ outcome' = "pending"
  /\ cacheReads' = 0
  /\ cacheWrites' = 0
  /\ srcCalls' = 0
  /\ cacheUp' = FALSE
  /\ UNCHANGED <<clock, client, cacheVars>>
  /\ UNCHANGED <<svcVars, pureVars>>

CallStep == Lookup \/ HttpAttempt \/ Backoff \/ WriteThrough \/ Return

Next ==
  \/ \E o \in Ops : \E r \in Requests(o) : Start(o, r)
  \/ Lookup
  \/ HttpAttempt
  \/ Backoff
  \/ WriteThrough
  \/ Return
  \/ ClientDown
  \/ ClientReady
  \/ CacheFaultChange
  \/ \E k \in CacheKeys : TtlExpiry(k)

Spec == Init /\ [][Next]_vars

\* The event loop runs every pending continuation: each HTTP attempt, cache
\* command and timer of the call in flight completes.
FairSpec == Spec /\ WF_vars(CallStep)

TypeOK ==
  /\ clock \in 0..MaxClock
  /\ pc \in {"idle", "lookup", "request", "backoff", "write", "done"}
  /\ op \in Ops \cup {"none"}
  /\ outcome \in {"pending", "resolved", "rejected"}
  /\ srcOutcome \in {"none", "ok", "failed"}

\* ================================================= PriceDiscoveryService
\* Units: nowMin and dates are minutes; returned prices are in paise and
\* returned confidences in hundredths.  Before formatPriceInfo a price is in
\* hundredths of a paisa and a confidence in thousandths, so that products
\* such as price * 0.95 and confidence * 0.8 are exact.

\* ------------------------------------------------------------------ bound
MaxElapsed == 6

\* ------------------------------------------------------ program constants
CacheTtlMinutes == 5
MaxReasonablePrice == 100000

\* --------------------------------------------------------------- utilities
\* Math.round(n / d) for n >= 0, d > 0.
RoundDiv(n, d) == (n \div d) + (IF 2 * (n % d) >= d THEN 1 ELSE 0)

RECURSIVE SumSeq(_)
SumSeq(s) == IF s = <<>> THEN 0 ELSE Head(s) + SumSeq(Tail(s))

MinOf(s) == CHOOSE x \in { s[i] : i \in 1..Len(s) } :
              \A j \in 1..Len(s) : x <= s[j]

MaxOf(s) == CHOOSE x \in { s[i] : i \in 1..Len(s) } :
              \A j \in 1..Len(s) : x >= s[j]

LastN(s, n) == IF Len(s) <= n THEN s ELSE SubSeq(s, Len(s) - n + 1, Len(s))

\* ------------------------------------------------------- queries (inputs)
\* A name of 101 characters.
LongName == "aaaaaaaaaaaaaaaaaaaaaaaaaaaaaaaaaaaaaaaaaaaaaaaaaaaaaaaaaaaaaaaaaaaaaaaaaaaaaaaaaaaaaaaaaaaaaaaaaaaaa"

SvcNames == {"Onion", "", LongName}
SvcCategories == {"vegetables"}
SvcQuantities == {0, 1, 5, 2000000}

\* `days` of getPriceHistory (a number), in tenths of a day: 0, 0.5, 1, 365,
\* 365.5 and 400 days.
HistoryDays == {0, 5, 10, 3650, 3655, 4000}

\* Queries that differ from a valid one in the name or in the quantity.
Queries ==
  { [name |-> n, category |-> c, location |-> "Delhi", quantity |-> k,
     unit |-> "kg"] : n \in SvcNames, c \in SvcCategories, k \in SvcQuantities } \
  { q \in [name : SvcNames, category : SvcCategories, location : {"Delhi"},
           quantity : SvcQuantities, unit : {"kg"}] :
      q.name # "Onion" /\ q.quantity # 1 }

\* String.length
StrLen(s) == Len(s)

\* Variant: the range check on the quantity is left out.
ValidateProductQueryNoRange(product) ==
  { e \in {"name", "category", "location", "unit", "quantity", "nameLength",
           "categoryLength", "locationLength", "unitLength"} :
      CASE e = "name" -> StrLen(product.name) = 0
        [] e = "category" -> StrLen(product.category) = 0
        [] e = "location" -> StrLen(product.location) = 0
        [] e = "unit" -> StrLen(product.unit) = 0
        [] e = "quantity" -> product.quantity <= 0
        [] e = "nameLength" -> StrLen(product.name) > 100
        [] e = "categoryLength" -> StrLen(product.category) > 50
        [] e = "locationLength" -> StrLen(product.location) > 100
        [] OTHER -> StrLen(product.unit) > 20 }

\* validateProductQuery: the set of errors found.
ValidateProductQuery(product) ==
  { e \in {"name", "category", "location", "unit", "quantity", "nameLength",
           "categoryLength", "locationLength", "unitLength", "quantityRange"} :
      CASE e = "name" -> StrLen(product.name) = 0
        [] e = "category" -> StrLen(product.category) = 0
        [] e = "location" -> StrLen(product.location) = 0
        [] e = "unit" -> StrLen(product.unit) = 0
        [] e = "quantity" -> product.quantity <= 0
        [] e = "nameLength" -> StrLen(product.name) > 100
        [] e = "categoryLength" -> StrLen(product.category) > 50
        [] e = "locationLength" -> StrLen(product.location) > 100
        [] e = "unitLength" -> StrLen(product.unit) > 20
        [] OTHER -> /\ product.quantity # 0
                    /\ (product.quantity > 1000000 \/ product.quantity <= 0) }

\* Variant: quantity and unit are part of the cache key.
GenerateCacheKeyWithQuantity(product) ==
  product.name \o "-" \o product.category \o "-" \o product.location
    \o "-" \o ToString(product.quantity) \o product.unit

GenerateCacheKey(product) ==
  product.name \o "-" \o product.category \o "-" \o product.location

IsCacheValid(timestamp, now) == now - timestamp < CacheTtlMinutes

\* toLowerCase().trim(), on the strings used; a string in lower case with
\* no space around it is left as it is.
LowerTrim(s) ==
  CASE s = "Onion" -> "onion"
    [] s = " ONION " -> "onion"
    [] s = "Red Onion" -> "red onion"
    [] s = "Mixed Vegetables" -> "mixed vegetables"
    [] s = "Rice" -> "rice"
    [] s = "Onion-red" -> "onion-red"
    [] OTHER -> s

\* String.includes: `part` occurs in `whole` at some position.
Includes(whole, part) ==
  \E i \in 1..(Len(whole) - Len(part) + 1) :
    SubSeq(whole, i, i + Len(part) - 1) = part

IsProductMatch(mandiProduct, queryName, queryCategory) ==
  \/ Includes(LowerTrim(mandiProduct), LowerTrim(queryName))
  \/ Includes(LowerTrim(mandiProduct), LowerTrim(queryCategory))
  \/ Includes(LowerTrim(queryName), LowerTrim(mandiProduct))

\* Variant: the last matching record is taken.
FindLastMatch(records, product) ==
  LET hits == { i \in 1..Len(records) :
                  IsProductMatch(records[i].product, product.name,
                                 product.category) }
  IN IF hits = {} THEN 0 ELSE CHOOSE i \in hits : \A j \in hits : i >= j

\* Array.find: the index of the first matching record, 0 if there is none.
FindMatch(records, product) ==
  LET hits == { i \in 1..Len(records) :
                  IsProductMatch(records[i].product, product.name,
                                 product.category) }
  IN IF hits = {} THEN 0 ELSE CHOOSE i \in hits : \A j \in hits : i <= j

\* ------------------------------------- what the adapter returns (inputs)
SvcMandiRecords(now) ==
  { [product |-> p.product, location |-> "Delhi", price |-> p.price,
     date |-> now - p.age, source |-> "government_api", verified |-> TRUE] :
      p \in { [product |-> "Onion", price |-> 2550, age |-> 0],
              [product |-> "Onion", price |-> 2550, age |-> 7 * 60],
              [product |-> "Onion", price |-> 15000000, age |-> 0],
              [product |-> "Rice", price |-> 2550, age |-> 0] } }

MandiLists(now) == SeqsUpTo(SvcMandiRecords(now), MaxRecords)

\* A history of 10 points, at a constant price.
LongHistories == { [i \in 1..n |-> 1000] : n \in {10} }

\* 20, 22, ..., 34 rupees.
SteadyRise == [i \in 1..8 |-> 2000 + 200 * (i - 1)]

\* Two weeks, the second 10% above or below the first.
WeekOnWeek(first, second) == [i \in 1..14 |-> IF i <= 7 THEN first ELSE second]

\* Histories with a trend: a steady rise (volatile), a week 10% above the
\* one before and a week 10% below it (both calm).
TrendingHistories ==
  {SteadyRise, WeekOnWeek(1000, 1100), WeekOnWeek(1100, 1000)}

\* Histories, as the prices of their records, oldest first: none, one point,
\* a rise from 10 to 30 rupees, and the long one.
Histories == {<<>>, <<1000>>, <<1000, 3000>>} \cup LongHistories

\* What getHistoricalData returns to the operation calling it: the trending
\* histories are tried where the trend is used, in getPriceHistory and
\* getMarketSentiment.
HistoriesOf(operation) ==
  IF operation \in {"getPriceHistory", "getMarketSentiment"}
    THEN Histories \cup TrendingHistories
    ELSE Histories

\* validateDataFreshness of the injected adapter.
SvcHourOfDay(now) == (now \div 60) % 24

MockValidateDataFreshness(data, now) ==
  (now - data.date) < 24 * 60 /\ data.verified

\* Variant: `isVerified` is left out of `isValid`.
GovValidateDataFreshnessAtUnverified(data, now) ==
  (now - data.date) < 24 * 60 /\ data.price > 0

\* GovernmentMarketDataAdapter.validateDataFreshness: isFresh && isVerified
\* && hasValidPrice.
GovValidateDataFreshnessAt(data, now) ==
  (now - data.date) < 24 * 60 /\ data.verified /\ data.price > 0

CachedValidateDataFreshnessAt(data, now) ==
  IF ~GovValidateDataFreshnessAt(data, now)
    THEN FALSE
  ELSE LET maxAgeHours == IF SvcHourOfDay(now) >= 6 /\ SvcHourOfDay(now) <= 18
                            THEN 6 ELSE 12
       IN (now - data.date) < maxAgeHours * 60

AdapterValidateDataFreshness(kind, data, now) ==
  IF kind = "mock" THEN MockValidateDataFreshness(data, now)
  ELSE CachedValidateDataFreshnessAt(data, now)

\* ------------------------------------------------------------ estimation
\* `new Date().getMonth()`: September (vegetables off season, festival
\* season).
Months == {8}

\* Days since the most recent historical point.
RecencyDays == {0, 40}

\* The prices of a history in whole rupees (the histories used hold no
\* fraction of a rupee), which keeps the sums of squares small.
Rupees(prices) == [i \in DOMAIN prices |-> prices[i] \div 100]

RECURSIVE SumSquares(_)
SumSquares(s) == IF s = <<>> THEN 0 ELSE Head(s) * Head(s) + SumSquares(Tail(s))

\* Math.sqrt(variance) / mean, squared, as a fraction: variance / mean^2 =
\* (n * sum of squares - (sum)^2) / (sum)^2.
VolatilitySquared(prices) ==
  LET r == Rupees(prices)
  IN [num |-> Len(r) * SumSquares(r) - SumSeq(r) * SumSeq(r),
      den |-> SumSeq(r) * SumSeq(r)]

\* volatility > a / b and volatility < a / b, for a history of positive prices.
VolatilityAbove(prices, a, b) ==
  LET v == VolatilitySquared(prices) IN v.num * b * b > v.den * a * a

VolatilityBelow(prices, a, b) ==
  LET v == VolatilitySquared(prices) IN v.num * b * b < v.den * a * a

\* buildMarketContext, for the month given.
BuildMarketContext(product, prices, month) ==
  [seasonality |->
     CASE product.category = "vegetables" /\ month \in {10, 11, 0, 1} -> "peak"
       [] product.category = "vegetables" /\ month \in {5, 6, 7, 8} -> "off-season"
       [] product.category = "fruits" /\ month \in {2, 3, 4, 5} -> "peak"
       [] product.category = "grains" /\ month \in {9, 10, 11} -> "off-season"
       [] product.category = "grains" /\ month \in {3, 4, 5} -> "peak"
       [] OTHER -> "normal",
   festivalSeason |-> month \in {8, 9, 10},
   supplyDisruptions |-> Len(prices) > 0 /\ VolatilityAbove(prices, 3, 10)]

\* ---- OpenAIPriceEstimationService
SelectEstimationMethod(prices, marketContext) ==
  IF Len(prices) >= 10
    THEN IF marketContext.seasonality # "normal" THEN "llm_seasonal_adjusted"
         ELSE "llm_with_historical"
  ELSE IF Len(prices) >= 3 THEN "llm_market_sentiment"
  ELSE "llm_category_based"

\* The numbers of the JSON object the model answers with: a consistent
\* estimate, one whose current price lies outside its range, one with a
\* negative current price and no minimum and average.
LlmAnswers ==
  { [current |-> 2800, minimum |-> 2500, maximum |-> 3200, average |-> 2800],
    [current |-> 5000, minimum |-> 2500, maximum |-> 3200, average |-> 2800],
    [current |-> 0 - 100, minimum |-> 0, maximum |-> 3200, average |-> 0] }

\* `a || b` on numbers.
OrElse(a, b) == IF a = 0 THEN b ELSE a

ParseAIResponse(parsed, method, now) ==
  [current |-> parsed.current,
   minimum |-> OrElse(parsed.minimum, (parsed.current * 8) \div 10),
   maximum |-> OrElse(parsed.maximum, (parsed.current * 12) \div 10),
   average |-> OrElse(parsed.average, parsed.current),
   confidence |-> 70, source |-> "estimated", lastUpdated |-> now,
   estimationMethod |-> method, historicalBasis |-> <<>>]

Clamp(lo, hi, x) == IF x < lo THEN lo ELSE IF x > hi THEN hi ELSE x

\* calculateConfidenceScore of the OpenAI service, in hundredths.
OpenAICalculateConfidenceScore(prices, daysSinceLastData, estimationMethod) ==
  LET n == Len(prices)
      availability == IF n >= 30 THEN 20 ELSE IF n >= 10 THEN 10
                      ELSE IF n < 3 THEN 0 - 20 ELSE 0
      recency == IF n = 0 THEN 0
                 ELSE IF daysSinceLastData <= 7 THEN 15
                 ELSE IF daysSinceLastData <= 30 THEN 5 ELSE 0 - 10
      byMethod == CASE estimationMethod = "llm_with_historical" -> 10
                    [] estimationMethod = "llm_seasonal_adjusted" -> 5
                    [] estimationMethod = "llm_category_based" -> 0 - 10
                    [] OTHER -> 0
      consistency == IF n <= 1 THEN 0
                     ELSE IF VolatilityBelow(prices, 1, 5) THEN 10
                     ELSE IF VolatilityAbove(prices, 1, 2) THEN 0 - 15 ELSE 0
  IN Clamp(10, 90, 50 + availability + recency + byMethod + consistency)

OpenAIEstimatePriceWithAI(product, prices, marketContext, parsed, days, now) ==
  LET method == SelectEstimationMethod(prices, marketContext)
  IN [ParseAIResponse(parsed, method, now) EXCEPT
        !.confidence = OpenAICalculateConfidenceScore(prices, days, method)]

\* ---- MockAIService
MockCategoryBasePrice(category) ==
  CASE category = "vegetables" -> 30
    [] category = "fruits" -> 50
    [] category = "grains" -> 25
    [] category = "pulses" -> 80
    [] category = "spices" -> 200
    [] category = "dairy" -> 60
    [] category = "meat" -> 300
    [] category = "fish" -> 250
    [] OTHER -> 50

\* calculateConfidenceScore of the mock service, in hundredths.
MockCalculateConfidenceScore(prices, daysSinceLastData) ==
  LET n == Len(prices)
      availability == IF n >= 20 THEN 20 ELSE IF n >= 10 THEN 10
                      ELSE IF n < 3 THEN 0 - 10 ELSE 0
      recency == IF n = 0 THEN 0
                 ELSE IF daysSinceLastData <= 7 THEN 10
                 ELSE IF daysSinceLastData > 30 THEN 0 - 10 ELSE 0
  IN Clamp(10, 70, ((40 + availability + recency) * 8) \div 10)

MockEstimatePriceWithAI(product, prices, marketContext, days, now) ==
  LET recentPrices == LastN(prices, 5)
      \* basePrice, in paise, as the fraction num / den
      num0 == IF Len(prices) > 0 THEN SumSeq(recentPrices)
              ELSE MockCategoryBasePrice(product.category) * 100
      den0 == IF Len(prices) > 0 THEN Len(recentPrices) ELSE 1
      season == CASE marketContext.seasonality = "peak" -> 12
                  [] marketContext.seasonality = "off-season" -> 8
                  [] OTHER -> 10
      festival == IF marketContext.festivalSeason THEN 115 ELSE 100
      disruption == IF marketContext.supplyDisruptions THEN 11 ELSE 10
      current == RoundDiv(num0 * season * festival * disruption,
                          den0 * 10 * 100 * 10)
      minimum == RoundDiv(current * 9, 10)
      maximum == RoundDiv(current * 11, 10)
  IN [current |-> current, minimum |-> minimum, maximum |-> maximum,
      average |-> RoundDiv(minimum + maximum, 2),
      confidence |-> MockCalculateConfidenceScore(prices, days),
      source |-> "estimated", lastUpdated |-> now,
      estimationMethod |-> "mock_ai_estimation",
      historicalBasis |-> LastN(prices, 10)]

\* What aiService.estimatePriceWithAI may resolve with, the AI service being
\* the OpenAI service or the mock service.
AiEstimates(product, prices, now) ==
  { OpenAIEstimatePriceWithAI(product, prices,
                              BuildMarketContext(product, prices, month),
                              parsed, days, now) :
      month \in Months, parsed \in LlmAnswers, days \in RecencyDays }
  \cup
  { MockEstimatePriceWithAI(product, prices,
                            BuildMarketContext(product, prices, month),
                            days, now) :
      month \in Months, days \in RecencyDays }

CategoryBasePrice(category) ==
  CASE category = "vegetables" -> 30
    [] category = "fruits" -> 50
    [] category = "grains" -> 25
    [] category = "pulses" -> 80
    [] category = "spices" -> 200
    [] OTHER -> 50

\* Variant: the baseline carries a confidence of 0.5.
EstimateFromCategoryMidConfidence(product, now) ==
  LET basePrice == CategoryBasePrice(product.category)
  IN [current |-> basePrice * 100, minimum |-> basePrice * 80,
      maximum |-> basePrice * 120, average |-> basePrice * 100,
      confidence |-> 50, source |-> "estimated", lastUpdated |-> now,
      estimationMethod |-> "category_baseline", historicalBasis |-> <<>>]

EstimateFromCategory(product, now) ==
  LET basePrice == CategoryBasePrice(product.category)
  IN [current |-> basePrice * 100, minimum |-> basePrice * 80,
      maximum |-> basePrice * 120, average |-> basePrice * 100,
      confidence |-> 30, source |-> "estimated", lastUpdated |-> now,
      estimationMethod |-> "category_baseline", historicalBasis |-> <<>>]

\* secondAvg / firstAvg, as a fraction.
CalculateTrendMultiplier(recentPrices) ==
  IF Len(recentPrices) < 2 THEN [num |-> 1, den |-> 1]
  ELSE LET half == Len(recentPrices) \div 2
           firstHalf == SubSeq(recentPrices, 1, half)
           secondHalf == SubSeq(recentPrices, half + 1, Len(recentPrices))
       IN [num |-> SumSeq(secondHalf) * Len(firstHalf),
           den |-> SumSeq(firstHalf) * Len(secondHalf)]

\* Math.round(Math.min(dataPoints / maxPoints, 1) * 0.8 * 100) / 100.
CalculateConfidence(dataPoints, maxPoints) ==
  IF dataPoints >= maxPoints THEN 80
  ELSE RoundDiv(80 * dataPoints, maxPoints)

EstimateFromHistoricalData(prices, now) ==
  LET trendMultiplier == CalculateTrendMultiplier(LastN(prices, 7))
  IN [current |-> RoundDiv(SumSeq(prices) * trendMultiplier.num,
                           Len(prices) * trendMultiplier.den),
      minimum |-> RoundDiv(MinOf(prices) * 9, 10),
      maximum |-> RoundDiv(MaxOf(prices) * 11, 10),
      average |-> RoundDiv(SumSeq(prices), Len(prices)),
      confidence |-> CalculateConfidence(Len(prices), 30),
      source |-> "estimated", lastUpdated |-> now,
      estimationMethod |-> "historical_average_with_trend",
      historicalBasis |-> prices]

\* Variant: the catch blocks around estimatePriceWithAI rethrow.
AiFailureRethrows(product, prices, now) ==
  [threw |-> TRUE, value |-> EstimateFromCategory(product, now)]

\* The catch blocks around estimatePriceWithAI: the statistical estimate
\* when there is a history, the category baseline when there is none.
AiFailureFallback(product, prices, now) ==
  [threw |-> FALSE,
   value |-> IF Len(prices) > 0 THEN EstimateFromHistoricalData(prices, now)
             ELSE EstimateFromCategory(product, now)]

\* ------------------------------------------- price history and sentiment
\* calculateTrend: mean of the last 7 points against the mean of the first 7.
\* Variant: the last point is compared with the first one.
CalculateTrendEndpoints(prices) ==
  IF Len(prices) < 2 THEN "stable"
  ELSE LET recent == prices[Len(prices)]
           older == prices[1]
       IN IF 20 * (recent - older) > older THEN "rising"
          ELSE IF 20 * (recent - older) < 0 - older THEN "falling"
          ELSE "stable"

\* Variant: a change of exactly 5% already counts as a trend.
CalculateTrendInclusive(prices) ==
  IF Len(prices) < 2 THEN "stable"
  ELSE LET recent == SumSeq(LastN(prices, 7))
           older == SumSeq(SubSeq(prices, 1, IF Len(prices) < 7 THEN Len(prices)
                                            ELSE 7))
       IN IF 20 * (recent - older) >= older THEN "rising"
          ELSE IF 20 * (recent - older) <= 0 - older THEN "falling"
          ELSE "stable"

CalculateTrend(prices) ==
  IF Len(prices) < 2 THEN "stable"
  ELSE LET recent == SumSeq(LastN(prices, 7))
           older == SumSeq(SubSeq(prices, 1, IF Len(prices) < 7 THEN Len(prices)
                                            ELSE 7))
       IN IF 20 * (recent - older) > older THEN "rising"
          ELSE IF 20 * (recent - older) < 0 - older THEN "falling"
          ELSE "stable"

\* The PriceHistory of getPriceHistory; calculateVolatility returns 0 for
\* fewer than two points, the coefficient of variation otherwise (kept here
\* through the prices it is computed from).
BuildPriceHistory(product, prices) ==
  [productId |-> product.name \o "-" \o product.category,
   location |-> product.location, prices |-> prices,
   trend |-> CalculateTrend(prices)]

HistoryVolatilityBelow(history, a, b) ==
  IF Len(history.prices) < 2 THEN TRUE
  ELSE VolatilityBelow(history.prices, a, b)

HistoryVolatilityAbove(history, a, b) ==
  IF Len(history.prices) < 2 THEN FALSE
  ELSE VolatilityAbove(history.prices, a, b)

\* Variant: the trend alone decides.
AnalyzeSentimentByTrend(history) ==
  IF history.trend = "rising" THEN "bullish"
  ELSE IF history.trend = "falling" THEN "bearish"
  ELSE "neutral"

AnalyzeSentiment(history) ==
  IF history.trend = "rising" /\ HistoryVolatilityBelow(history, 1, 10)
    THEN "bullish"
  ELSE IF history.trend = "falling" /\ HistoryVolatilityBelow(history, 1, 10)
    THEN "bearish"
  ELSE "neutral"

IdentifyMarketFactors(history) ==
  (CASE history.trend = "rising" -> <<"Increasing demand">>
     [] history.trend = "falling" -> <<"Seasonal surplus">>
     [] OTHER -> <<"Stable market conditions">>)
  \o (IF HistoryVolatilityAbove(history, 3, 20)
        THEN <<"Market uncertainty">> ELSE <<>>)
  \o (IF Len(history.prices) < 10
        THEN <<"Limited data availability">> ELSE <<>>)

\* The statistically derived MarketSentiment (its confidence, a sum with the
\* volatility itself, is left out of the record).
StatisticalSentiment(product, history) ==
  [product |-> product.name, location |-> product.location,
   sentiment |-> AnalyzeSentiment(history),
   factors |-> IdentifyMarketFactors(history)]

\* What aiService.generateMarketSentiment may resolve with: any of the three
\* sentiments, with factors of the AI service's own.
AiSentiments(product) ==
  { [product |-> product.name, location |-> product.location,
     sentiment |-> s, factors |-> <<"Mixed market signals">>] :
      s \in {"bullish", "bearish", "neutral"} }

\* Variant: the catch block around generateMarketSentiment rethrows.
SentimentFailureRethrows(product, history) ==
  [threw |-> TRUE, value |-> NoSentiment]

\* The catch block around generateMarketSentiment.
SentimentFailureFallback(product, history) ==
  [threw |-> FALSE, value |-> StatisticalSentiment(product, history)]

\* ------------------------------------------- PriceInfo of getCurrentPrice
\* Variant: the confidence of an unverified record for every record.
ConvertMandiPriceToPriceInfoUnverified(mandiPrice, source) ==
  [current |-> mandiPrice.price * 100, minimum |-> mandiPrice.price * 95,
   maximum |-> mandiPrice.price * 105, average |-> mandiPrice.price * 100,
   confidence |-> 750, source |-> source, lastUpdated |-> mandiPrice.date]

ConvertMandiPriceToPriceInfo(mandiPrice, source) ==
  [current |-> mandiPrice.price * 100, minimum |-> mandiPrice.price * 95,
   maximum |-> mandiPrice.price * 105, average |-> mandiPrice.price * 100,
   confidence |-> IF mandiPrice.verified THEN 950 ELSE 750,
   source |-> source, lastUpdated |-> mandiPrice.date]

\* Variant: the estimate's confidence is passed on as it is.
EstimatedPriceInfoFullConfidence(estimated, now) ==
  [current |-> estimated.current * 100, minimum |-> estimated.minimum * 100,
   maximum |-> estimated.maximum * 100, average |-> estimated.average * 100,
   confidence |-> estimated.confidence * 10, source |-> "estimated",
   lastUpdated |-> now]

\* The PriceInfo built from an estimate: `confidence: estimated.confidence * 0.8`.
EstimatedPriceInfo(estimated, now) ==
  [current |-> estimated.current * 100, minimum |-> estimated.minimum * 100,
   maximum |-> estimated.maximum * 100, average |-> estimated.average * 100,
   confidence |-> estimated.confidence * 8, source |-> "estimated",
   lastUpdated |-> now]

\* formatPrice / formatConfidence throw on a negative price and on a
\* confidence outside [0, 1].
FormatThrows(info) ==
  \/ info.current < 0 \/ info.minimum < 0
  \/ info.maximum < 0 \/ info.average < 0
  \/ info.confidence < 0 \/ info.confidence > 1000

FormatErrorMessage(info) ==
  IF info.current < 0 \/ info.minimum < 0 \/ info.maximum < 0 \/ info.average < 0
    THEN "Price cannot be negative"
    ELSE "Confidence must be between 0 and 1"

\* formatPriceInfo: every number rounded to two decimals.
FormatPriceInfo(info) ==
  [info EXCEPT !.current = RoundDiv(@, 100), !.minimum = RoundDiv(@, 100),
               !.maximum = RoundDiv(@, 100), !.average = RoundDiv(@, 100),
               !.confidence = RoundDiv(@, 10)]

\* The number NaN, and the time value of an invalid Date: a value no price,
\* confidence or time of the model takes.
NaN == 0 - 1000000000

\* JavaScript's < and > on numbers: false when either side is NaN.
JsLess(a, b) == a # NaN /\ b # NaN /\ a < b

JsGreater(a, b) == a # NaN /\ b # NaN /\ a > b

\* Variant: the three range checks are skipped.
ValidatePriceDataNoRange(info, now) ==
  /\ info.current >= 0 /\ info.minimum >= 0
  /\ info.maximum >= 0 /\ info.average >= 0
  /\ info.confidence >= 0 /\ info.confidence <= 100
  /\ info.source \in {"official", "estimated"}
  /\ info.lastUpdated >= now - 24 * 60

\* validatePriceData(priceInfo).isValid: none of the tests that push an error
\* holds. The fields are numbers (NaN included) and a Date (an invalid one
\* included, its getTime() being NaN).
ValidatePriceData(info, now) ==
  /\ ~JsLess(info.current, 0)
  /\ ~JsLess(info.minimum, 0)
  /\ ~JsLess(info.maximum, 0)
  /\ ~JsLess(info.average, 0)
  /\ ~(JsLess(info.confidence, 0) \/ JsGreater(info.confidence, 100))
  /\ info.source \in {"official", "estimated"}
  /\ info.lastUpdated # NaN
  /\ ~JsGreater(info.minimum, info.maximum)
  /\ ~(JsLess(info.current, info.minimum) \/ JsGreater(info.current, info.maximum))
  /\ ~(JsLess(info.average, info.minimum) \/ JsGreater(info.average, info.maximum))
  /\ ~( \/ JsGreater(info.current, MaxReasonablePrice * 100)
        \/ JsGreater(info.minimum, MaxReasonablePrice * 100)
        \/ JsGreater(info.maximum, MaxReasonablePrice * 100)
        \/ JsGreater(info.average, MaxReasonablePrice * 100) )
  /\ ~JsLess(info.lastUpdated, now - 24 * 60)

\* The (name, category, location) of a query.
QueryTriple(product) == <<product.name, product.category, product.location>>

\* ---------------------------------------------------------------- actions
\* The operation rejects at its validation with 'Invalid product query: ...'.
InvalidQueryRejects ==
  /\ svcPc' = "done"
  /\ svcOutcome' = "rejected"
  /\ svcError' = <<"Invalid product query">>

\* Variant: the `catch` drops the entry cached for the query.
RejectsAndEvicts(prefix, message) ==
  /\ svcPc' = "done"
  /\ svcOutcome' = "rejected"
  /\ svcError' = <<prefix, query.name, message>>
  /\ priceCache' = [k \in DOMAIN priceCache \ {GenerateCacheKey(query)} |->
                      priceCache[k]]
  /\ UNCHANGED <<lastResolved, svcResult>>

\* Variant: the error caught is rethrown as it is.
RejectsUnwrapped(prefix, message) ==
  /\ svcPc' = "done"
  /\ svcOutcome' = "rejected"
  /\ svcError' = <<message>>
  /\ UNCHANGED <<priceCache, lastResolved, svcResult>>

\* The `catch` of an operation rejects with `<prefix> <name>: <message>`.
Rejects(prefix, message) ==
  /\ svcPc' = "done"
  /\ svcOutcome' = "rejected"
  /\ svcError' = <<prefix, query.name, message>>
  /\ UNCHANGED <<priceCache, lastResolved, svcResult>>

\* The call rejects with `Failed to get price for <name>: <message>`.
GetCurrentPriceRejects(message) == Rejects("Failed to get price for", message)

\* `priceInfo = formatPriceInfo(priceInfo)`, validation, priceCache.set and
\* return.
Finish(info) ==
  /\ priceInfo' = info
  /\ IF FormatThrows(info)
       THEN GetCurrentPriceRejects(FormatErrorMessage(info))
     ELSE IF ~ValidatePriceData(FormatPriceInfo(info), nowMin)
       THEN GetCurrentPriceRejects("Generated price data failed validation")
     ELSE /\ priceCache' =
               (GenerateCacheKey(query) :>
                  [data |-> FormatPriceInfo(info), timestamp |-> nowMin])
                 @@ priceCache
          /\ lastResolved' =
               (QueryTriple(query) :>
                  [result |-> FormatPriceInfo(info), cachedAt |-> nowMin])
                 @@ lastResolved
          /\ svcResult' = FormatPriceInfo(info)
          /\ svcOutcome' = "resolved"
          /\ svcPc' = "done"
          /\ UNCHANGED svcError

\* estimatePrice returns `estimated`: to its caller when it was called
\* directly, to getCurrentPrice otherwise.
EstimatePriceReturns(estimated) ==
  /\ estimatedPrice' = estimated
  /\ IF svcOp = "getCurrentPrice"
       THEN Finish(EstimatedPriceInfo(estimated, nowMin))
     ELSE /\ svcPc' = "done"
          /\ svcOutcome' = "resolved"
          /\ UNCHANGED <<priceCache, lastResolved, priceInfo, svcResult,
                         svcError>>

\* The `catch` of estimatePrice, and the one of getCurrentPrice around it.
EstimatePriceRejects(message) ==
  IF svcOp = "getCurrentPrice"
    THEN GetCurrentPriceRejects("Failed to estimate price for " \o query.name
                                  \o ": " \o message)
  ELSE Rejects("Failed to estimate price for", message)

\* getCurrentPrice(product), up to its first await.
GetCurrentPrice(product) ==
  /\ svcPc = "idle"
  /\ svcOp' = "getCurrentPrice"
  /\ svcDays' = svcDays
  /\ query' = product
  /\ IF ValidateProductQuery(product) # {}
       THEN /\ InvalidQueryRejects
            /\ UNCHANGED <<svcResult, adapterCalls>>
     ELSE IF /\ GenerateCacheKey(product) \in DOMAIN priceCache
             /\ IsCacheValid(priceCache[GenerateCacheKey(product)].timestamp,
                             nowMin)
       THEN /\ svcPc' = "done"
            /\ svcOutcome' = "resolved"
            /\ svcResult' = priceCache[GenerateCacheKey(product)].data
            /\ UNCHANGED <<svcError, adapterCalls>>
     ELSE /\ svcPc' = "fetch"
          /\ adapterCalls' = adapterCalls + 1
          /\ UNCHANGED <<svcResult, svcOutcome, svcError>>
  /\ UNCHANGED <<adapterVars, pureVars, nowMin, adapterKind, priceCache,
                 lastResolved, matchingPrice, historicalData, estimatedPrice,
                 priceInfo, priceHistory, marketSentiment, adapterThrew,
                 aiThrew, aiCalls>>

\* estimatePrice(product), called on its own, up to its first await.
EstimatePrice(product) ==
  /\ svcPc = "idle"
  /\ svcOp' = "estimatePrice"
  /\ svcDays' = svcDays
  /\ query' = product
  /\ IF ValidateProductQuery(product) # {}
       THEN /\ InvalidQueryRejects
            /\ UNCHANGED adapterCalls
     ELSE /\ svcPc' = "history"
          /\ adapterCalls' = adapterCalls + 1
          /\ UNCHANGED <<svcOutcome, svcError>>
  /\ UNCHANGED <<adapterVars, pureVars, nowMin, adapterKind, priceCache,
                 lastResolved, matchingPrice, historicalData, estimatedPrice,
                 priceInfo, priceHistory, marketSentiment, adapterThrew,
                 aiThrew, svcResult, aiCalls>>

\* getPriceHistory(product, days), up to its first await.
GetPriceHistory(product, days) ==
  /\ svcPc = "idle"
  /\ svcOp' = "getPriceHistory"
  /\ svcDays' = days
  /\ query' = product
  /\ IF ValidateProductQuery(product) # {}
       THEN /\ InvalidQueryRejects
            /\ UNCHANGED adapterCalls
     ELSE IF days <= 0 \/ days > 365 * 10
       THEN /\ svcPc' = "done"
            /\ svcOutcome' = "rejected"
            /\ svcError' = <<"Days must be between 1 and 365">>
            /\ UNCHANGED adapterCalls
     ELSE /\ svcPc' = "history"
          /\ adapterCalls' = adapterCalls + 1
          /\ UNCHANGED <<svcOutcome, svcError>>
  /\ UNCHANGED <<adapterVars, pureVars, nowMin, adapterKind, priceCache,
                 lastResolved, matchingPrice, historicalData, estimatedPrice,
                 priceInfo, priceHistory, marketSentiment, adapterThrew,
                 aiThrew, svcResult, aiCalls>>

\* getMarketSentiment(product), up to the first await of the
\* getPriceHistory(product, 30) it makes.
GetMarketSentiment(product) ==
  /\ svcPc = "idle"
  /\ svcOp' = "getMarketSentiment"
  /\ svcDays' = 30 * 10
  /\ query' = product
  /\ IF ValidateProductQuery(product) # {}
       THEN /\ InvalidQueryRejects
            /\ UNCHANGED adapterCalls
     ELSE /\ svcPc' = "history"
          /\ adapterCalls' = adapterCalls + 1
          /\ UNCHANGED <<svcOutcome, svcError>>
  /\ UNCHANGED <<adapterVars, pureVars, nowMin, adapterKind, priceCache,
                 lastResolved, matchingPrice, historicalData, estimatedPrice,
                 priceInfo, priceHistory, marketSentiment, adapterThrew,
                 aiThrew, svcResult, aiCalls>>

\* marketDataAdapter.fetchMandiPrices resolves.
MandiPricesFetched(prices) ==
  /\ svcPc = "fetch"
  /\ LET i == FindMatch(prices, query)
     IN /\ matchingPrice' = (IF i # 0 THEN prices[i] ELSE NoRecord)
        /\ IF i # 0 /\ AdapterValidateDataFreshness(adapterKind, prices[i],
                                                    nowMin)
             THEN /\ Finish(ConvertMandiPriceToPriceInfo(prices[i],
                                                         "official"))
                  /\ UNCHANGED adapterCalls
             ELSE /\ svcPc' = "history"
                  /\ adapterCalls' = adapterCalls + 1
                  /\ UNCHANGED <<priceCache, lastResolved, priceInfo,
                                 svcResult, svcOutcome, svcError>>
  /\ UNCHANGED <<adapterVars, nowMin, adapterKind, svcOp, svcDays, query,
                 historicalData, estimatedPrice, priceHistory, marketSentiment,
                 adapterThrew, aiThrew, aiCalls>>

FetchMandiPricesReturns ==
  /\ \E prices \in MandiLists(nowMin) : MandiPricesFetched(prices)
  /\ UNCHANGED pureVars

\* marketDataAdapter.fetchMandiPrices rejects (the mock provider when unhealthy).
FetchMandiPricesRejects ==
  /\ svcPc = "fetch"
  /\ adapterKind = "mock"
  /\ adapterThrew' = TRUE
  /\ GetCurrentPriceRejects("Mock API is currently unavailable")
  /\ UNCHANGED <<adapterVars, pureVars, nowMin, adapterKind, svcOp, svcDays, query,
                 matchingPrice, historicalData, estimatedPrice, priceInfo,
                 priceHistory, marketSentiment, aiThrew, adapterCalls, aiCalls>>

\* marketDataAdapter.getHistoricalData resolves: estimatePrice asks the AI
\* service for an estimate next, getMarketSentiment for a sentiment;
\* getPriceHistory returns the PriceHistory.
GetHistoricalDataReturns ==
  /\ svcPc = "history"
  /\ \E prices \in HistoriesOf(svcOp) :
       /\ historicalData' = prices
       /\ priceHistory' = IF svcOp \in {"getPriceHistory", "getMarketSentiment"}
                            THEN BuildPriceHistory(query, prices)
                            ELSE priceHistory
  /\ IF svcOp = "getPriceHistory"
       THEN /\ svcPc' = "done"
            /\ svcOutcome' = "resolved"
            /\ UNCHANGED aiCalls
       ELSE /\ svcPc' = "ai"
            /\ aiCalls' = aiCalls + 1
            /\ UNCHANGED svcOutcome
  /\ UNCHANGED <<adapterVars, pureVars, nowMin, adapterKind, priceCache,
                 lastResolved, svcOp, svcDays, query, matchingPrice, estimatedPrice,
                 priceInfo, marketSentiment, adapterThrew, aiThrew, svcResult,
                 svcError, adapterCalls>>

\* marketDataAdapter.getHistoricalData rejects (the mock provider when
\* unhealthy): every operation rethrows from its `catch`.
GetHistoricalDataRejects ==
  /\ svcPc = "history"
  /\ adapterKind = "mock"
  /\ adapterThrew' = TRUE
  /\ CASE svcOp \in {"getCurrentPrice", "estimatePrice"} ->
            EstimatePriceRejects("Mock API is currently unavailable")
       [] svcOp = "getPriceHistory" ->
            Rejects("Failed to get price history for",
                    "Mock API is currently unavailable")
       [] OTHER ->
            Rejects("Failed to analyze market sentiment for",
                    "Failed to get price history for " \o query.name
                      \o ": Mock API is currently unavailable")
  /\ UNCHANGED <<adapterVars, pureVars, nowMin, adapterKind, svcOp, svcDays, query,
                 matchingPrice, historicalData, estimatedPrice, priceInfo,
                 priceHistory, marketSentiment, aiThrew, adapterCalls, aiCalls>>

\* estimatePrice: aiService.estimatePriceWithAI resolves.
EstimatePriceWithAIReturns ==
  /\ svcPc = "ai"
  /\ svcOp \in {"getCurrentPrice", "estimatePrice"}
  /\ \E estimated \in AiEstimates(query, historicalData, nowMin) :
       EstimatePriceReturns(estimated)
  /\ UNCHANGED <<adapterVars, pureVars, nowMin, adapterKind, svcOp, svcDays, query,
                 matchingPrice, historicalData, priceHistory, marketSentiment,
                 adapterThrew, aiThrew, adapterCalls, aiCalls>>

\* estimatePrice: aiService.estimatePriceWithAI rejects.
EstimatePriceWithAIRejects ==
  /\ svcPc = "ai"
  /\ svcOp \in {"getCurrentPrice", "estimatePrice"}
  /\ aiThrew' = TRUE
  /\ LET fallback == AiFailureFallback(query, historicalData, nowMin)
     IN IF fallback.threw
          THEN /\ EstimatePriceRejects("AI service failed")
               /\ UNCHANGED <<priceInfo, estimatedPrice>>
          ELSE EstimatePriceReturns(fallback.value)
  /\ UNCHANGED <<adapterVars, pureVars, nowMin, adapterKind, svcOp, svcDays, query,
                 matchingPrice, historicalData, priceHistory, marketSentiment,
                 adapterThrew, adapterCalls, aiCalls>>

\* getMarketSentiment: aiService.generateMarketSentiment resolves.
GenerateMarketSentimentReturns ==
  /\ svcPc = "ai"
  /\ svcOp = "getMarketSentiment"
  /\ marketSentiment' \in AiSentiments(query)
  /\ svcPc' = "done"
  /\ svcOutcome' = "resolved"
  /\ UNCHANGED <<adapterVars, pureVars, nowMin, adapterKind, priceCache,
                 lastResolved, svcOp, svcDays, query, matchingPrice, historicalData,
                 estimatedPrice, priceInfo, priceHistory, adapterThrew, aiThrew,
                 svcResult, svcError, adapterCalls, aiCalls>>

\* getMarketSentiment: aiService.generateMarketSentiment rejects.
GenerateMarketSentimentRejects ==
  /\ svcPc = "ai"
  /\ svcOp = "getMarketSentiment"
  /\ aiThrew' = TRUE
  /\ LET fallback == SentimentFailureFallback(query, priceHistory)
     IN IF fallback.threw
          THEN /\ Rejects("Failed to analyze market sentiment for",
                          "AI service failed")
               /\ UNCHANGED marketSentiment
          ELSE /\ marketSentiment' = fallback.value
               /\ svcPc' = "done"
               /\ svcOutcome' = "resolved"
               /\ UNCHANGED <<priceCache, lastResolved, svcResult, svcError>>
  /\ UNCHANGED <<adapterVars, pureVars, nowMin, adapterKind, svcOp, svcDays, query,
                 matchingPrice, historicalData, estimatedPrice, priceInfo,
                 priceHistory, adapterThrew, adapterCalls, aiCalls>>

\* The caller receives the settled promise.
SvcReturn ==
  /\ svcPc = "done"
  /\ svcPc' = "idle"
  /\ svcOp' = "none"
  /\ svcDays' = 0
  /\ query' = NoQuery
  /\ matchingPrice' = NoRecord
  /\ historicalData' = <<>>
  /\ estimatedPrice' = NoEstimate
  /\ priceInfo' = NoPriceInfo
  /\ priceHistory' = NoPriceHistory
  /\ marketSentiment' = NoSentiment
  /\ adapterThrew' = FALSE
  /\ aiThrew' = FALSE
  /\ svcResult' = NoPriceInfo
  /\ svcOutcome' = "pending"
  /\ svcError' = <<>>
  /\ adapterCalls' = 0
  /\ aiCalls' = 0
  /\ UNCHANGED <<adapterVars, pureVars, nowMin, adapterKind, priceCache,
                 lastResolved>>

\* cleanup(): `this.priceCache.clear()`.
PriceCacheCleared ==
  /\ priceCache' = <<>>
  /\ lastResolved' = <<>>
  /\ UNCHANGED <<adapterVars, nowMin, adapterKind, svcCallVars>>

\* cleanup(), between two calls.
Cleanup ==
  /\ svcPc = "idle"
  /\ priceCache # <<>>
  /\ PriceCacheCleared
  /\ UNCHANGED pureVars

\* setMarketDataAdapter(adapter)
SetMarketDataAdapter(kind) ==
  /\ svcPc = "idle"
  /\ kind # adapterKind
  /\ adapterKind' = kind
  /\ UNCHANGED <<adapterVars, pureVars, nowMin, priceCache, lastResolved,
                 svcCallVars>>

\* A minute passes between two calls; a call settles within the minute.
SvcTick ==
  /\ svcPc = "idle"
  /\ nowMin % 60 < MaxElapsed
  /\ nowMin' = nowMin + 1
  /\ UNCHANGED <<adapterVars, pureVars, adapterKind, priceCache, lastResolved,
                 svcCallVars>>

SvcInit ==
  /\ clock = 0
  /\ client = "fetchMandiPrices"
  /\ store = [k \in CacheKeys |-> NoEntry]
  /\ cacheFault = FALSE
  /\ isConnected = FALSE
  /\ connectionRetries = 0
  /\ retryTimer = FALSE
  /\ isInitialized = FALSE
  /\ pc = "idle"
  /\ NoCall
  /\ nowMin \in {0, 10 * 60}
  /\ adapterKind \in {"cached", "mock"}
  /\ SvcConstructed
  /\ NoValidation
  /\ NoTrendCall
  /\ NoPriceCheck
  /\ NoCacheCall
  /\ NoOverlap
  /\ NoFetch
  /\ NoCallers
  /\ NoCleanup
  /\ NoFactory

SvcNext ==
  \/ \E product \in Queries : GetCurrentPrice(product)
  \/ \E product \in Queries : EstimatePrice(product)
  \/ \E product \in Queries, days \in HistoryDays : GetPriceHistory(product, days)
  \/ \E product \in Queries : GetMarketSentiment(product)
  \/ FetchMandiPricesReturns
  \/ FetchMandiPricesRejects
  \/ GetHistoricalDataReturns
  \/ GetHistoricalDataRejects
  \/ EstimatePriceWithAIReturns
  \/ EstimatePriceWithAIRejects
  \/ GenerateMarketSentimentReturns
  \/ GenerateMarketSentimentRejects
  \/ SvcReturn
  \/ Cleanup
  \/ \E kind \in {"cached", "mock"} : SetMarketDataAdapter(kind)
  \/ SvcTick

SvcSpec == SvcInit /\ [][SvcNext]_vars

SvcTypeOK ==
  /\ svcPc \in {"idle", "fetch", "history", "ai", "done"}
  /\ svcOp \in {"none", "getCurrentPrice", "estimatePrice", "getPriceHistory",
                "getMarketSentiment"}
  /\ svcOutcome \in {"pending", "resolved", "rejected"}
  /\ adapterKind \in {"cached", "mock"}
  /\ query \in Queries \cup {NoQuery}
  /\ adapterCalls \in 0..2
  /\ aiCalls \in 0..1
  /\ svcDays \in HistoryDays \cup {30 * 10}


\* ============================================== validateDataFreshness calls
\* The three implementations of MarketDataAdapter.validateDataFreshness,
\* applied to one record at one time of day.

\* ------------------------------------------------------------------ bound
MaxAgeHours == 25

\* ----------------------------------------------------------------- inputs
\* Times of day, to the minute: every hour, on the hour, at half past and
\* one minute before the next.
FreshNows == { h * 60 + m : h \in 0..23, m \in {0, 30, 59} }

\* Ages of the record, to the minute.
FreshAges == { h * 60 + m : h \in 0..MaxAgeHours, m \in {0, 59} }

FreshRecords(now) ==
  { [product |-> "Onion", location |-> "Delhi", price |-> p, date |-> now - a,
     source |-> "government_api", verified |-> v] :
      p \in {0, 2550}, a \in FreshAges, v \in BOOLEAN }

\* ----------------------------------------------------------------- action
ValidateDataFreshness ==
  /\ vPc = "call"
  /\ vFresh' = [government |-> GovValidateDataFreshnessAt(vData, vNow),
                cached |-> CachedValidateDataFreshnessAt(vData, vNow),
                mock |-> MockValidateDataFreshness(vData, vNow)]
  /\ vPc' = "done"
  /\ UNCHANGED <<adapterVars, svcVars, trendVars, validVars, mcVars, overlapVars, extraVars, vNow,
                 vData>>

FreshInit ==
  /\ clock = 0
  /\ client = "fetchMandiPrices"
  /\ store = [k \in CacheKeys |-> NoEntry]
  /\ cacheFault = FALSE
  /\ isConnected = FALSE
  /\ connectionRetries = 0
  /\ retryTimer = FALSE
  /\ isInitialized = FALSE
  /\ pc = "idle"
  /\ NoCall
  /\ nowMin = 0
  /\ adapterKind = "cached"
  /\ SvcConstructed
  /\ vNow \in FreshNows
  /\ vData \in FreshRecords(vNow)
  /\ vPc = "call"
  /\ vFresh = [government |-> FALSE, cached |-> FALSE, mock |-> FALSE]
  /\ NoTrendCall
  /\ NoPriceCheck
  /\ NoCacheCall
  /\ NoOverlap
  /\ NoFetch
  /\ NoCallers
  /\ NoCleanup
  /\ NoFactory

FreshNext == ValidateDataFreshness

FreshSpec == FreshInit /\ [][FreshNext]_vars

FreshTypeOK ==
  /\ vPc \in {"idle", "call", "done"}
  /\ vNow \in FreshNows
  /\ vFresh \in [government : BOOLEAN, cached : BOOLEAN, mock : BOOLEAN]

\* ====================================================== calculateTrend calls
\* PriceDiscoveryService.calculateTrend, applied to one series of prices.

\* ------------------------------------------------------------------ bound
MaxPoints == 8

\* ----------------------------------------------------------------- inputs
\* 10.00, 13.50 and 14.00 rupees: with seven points at 10.00 the eighth
\* changes the mean by exactly 5% at 13.50 and by more at 14.00.
TrendPrices == {1000, 1350, 1400}

TrendSeries ==
  SeqsUpTo(TrendPrices, MaxPoints)
    \cup TrendingHistories

\* ----------------------------------------------------------------- action
CallCalculateTrend ==
  /\ tPc = "call"
  /\ tTrend' = CalculateTrend(tPrices)
  /\ tPc' = "done"
  /\ UNCHANGED <<adapterVars, svcVars, freshVars, validVars, mcVars, overlapVars, extraVars,
                 tPrices>>

TrendInit ==
  /\ clock = 0
  /\ client = "fetchMandiPrices"
  /\ store = [k \in CacheKeys |-> NoEntry]
  /\ cacheFault = FALSE
  /\ isConnected = FALSE
  /\ connectionRetries = 0
  /\ retryTimer = FALSE
  /\ isInitialized = FALSE
  /\ pc = "idle"
  /\ NoCall
  /\ nowMin = 0
  /\ adapterKind = "cached"
  /\ SvcConstructed
  /\ NoValidation
  /\ tPrices \in TrendSeries
  /\ tPc = "call"
  /\ tTrend = "none"
  /\ NoPriceCheck
  /\ NoCacheCall
  /\ NoOverlap
  /\ NoFetch
  /\ NoCallers
  /\ NoCleanup
  /\ NoFactory

TrendNext == CallCalculateTrend

TrendSpec == TrendInit /\ [][TrendNext]_vars

\* ==================================================== validatePriceData calls
\* validatePriceData of price-validation.ts, applied to one PriceInfo.

\* ----------------------------------------------------------------- inputs
\* NaN, -0.01, 0, 20.00, 100000.00 and 100000.01 rupees.
CheckedPrices == {NaN, 0 - 1, 0, 2000, MaxReasonablePrice * 100,
                  MaxReasonablePrice * 100 + 1}

\* NaN, -0.01, 0, 1 and 1.01.
CheckedConfidences == {NaN, 0 - 1, 0, 100, 101}

CheckedSources == {"official", "estimated", "unknown", ""}

\* An invalid Date; a minute more than 24 hours ago; 24 hours ago; now.
CheckedDates(now) == {NaN, now - 24 * 60 - 1, now - 24 * 60, now}

CheckedPriceInfos(now) ==
  [current : CheckedPrices, minimum : {0, 2000}, maximum : CheckedPrices,
   average : {NaN, 0, 2000}, confidence : CheckedConfidences,
   source : CheckedSources, lastUpdated : CheckedDates(now)]
    \cup [current : {2000}, minimum : CheckedPrices, maximum : {2000},
          average : CheckedPrices, confidence : {90}, source : {"official"},
          lastUpdated : {now}]

\* ----------------------------------------------------------------- action
CallValidatePriceData ==
  /\ vpPc = "call"
  /\ vpValid' = ValidatePriceData(vpInfo, vpNow)
  /\ vpPc' = "done"
  /\ UNCHANGED <<adapterVars, svcVars, freshVars, trendVars, mcVars, overlapVars, extraVars,
                 vpInfo, vpNow>>

ValidInit ==
  /\ clock = 0
  /\ client = "fetchMandiPrices"
  /\ store = [k \in CacheKeys |-> NoEntry]
  /\ cacheFault = FALSE
  /\ isConnected = FALSE
  /\ connectionRetries = 0
  /\ retryTimer = FALSE
  /\ isInitialized = FALSE
  /\ pc = "idle"
  /\ NoCall
  /\ nowMin = 0
  /\ adapterKind = "cached"
  /\ SvcConstructed
  /\ NoValidation
  /\ NoTrendCall
  /\ vpNow = 3000
  /\ vpInfo \in CheckedPriceInfos(vpNow)
  /\ vpPc = "call"
  /\ vpValid = FALSE
  /\ NoCacheCall
  /\ NoOverlap
  /\ NoFetch
  /\ NoCallers
  /\ NoCleanup
  /\ NoFactory

ValidNext == CallValidatePriceData

ValidSpec == ValidInit /\ [][ValidNext]_vars

\* ===================================================== MarketDataCache calls
\* The methods of MarketDataCache called directly, one kind of data per
\* behaviour (`client`), with the Redis client going down and coming back,
\* failing commands, dropping expired entries and holding values written by
\* others.

\* ----------------------------------------------------------------- bounds
\* Failed attempts to connect in a row.
MaxFailures == 7

\* Retry timers pending when the owner calls connect().
MaxTimers == 1

\* ----------------------------------------------------------------- inputs
CachedRecord ==
  [product |-> "Onion", location |-> "Delhi", price |-> 2550, date |-> 1,
   source |-> "government_api", verified |-> TRUE]

\* The values written, per kind of data.
CachedValues(o) ==
  CASE o = "checkApiHealth" -> BOOLEAN
    [] o = "getSupportedLocations" -> {<<"Delhi">>}
    [] o = "getSupportedProducts" -> {<<"Onion">>}
    [] OTHER -> {<<CachedRecord>>}

\* ---------------------------------------------------------------- methods
\* The catch block of every method logs and returns.
\* Variant: it rethrows.
CatchRethrows(threw) == IF threw THEN "rejected" ELSE "resolved"

CatchReturns(threw) == "resolved"

\* What the try block of a getCached* throws on: a failing command, a stored
\* value that does not parse.
GetThrows(key, st, fault) ==
  fault \/ (st[key].present /\ ~st[key].parseable)

\* The keys under one prefix that Redis holds.
KeysOfPrefix(o, st) == { KeyOf(o, r) : r \in Requests(o) } \cap
                         { k \in CacheKeys : st[k].present }

\* clearAll: `keys` for each of the five prefixes and `del` of the keys found.
ClearAllCommands(st, connected, fault) ==
  IF ~connected THEN 0
  ELSE IF fault THEN 1
  ELSE Cardinality(Ops) + Cardinality({ o \in Ops : KeysOfPrefix(o, st) # {} })

ClearAllStore(st, connected, fault) ==
  IF ~connected \/ fault THEN st ELSE [k \in CacheKeys |-> NoEntry]

\* ---------------------------------------------------------------- actions
\* getCachedMandiPrices, getCachedHistoricalData, getCachedLocations,
\* getCachedProducts, getCachedHealthStatus.
GetCached(r) ==
  /\ mcCall' = [method |-> "get", key |-> KeyOf(client, r),
                connected |-> isConnected,
                threw |-> isConnected /\ GetThrows(KeyOf(client, r), store, cacheFault)]
  /\ mcReturned' = CacheGet(client, KeyOf(client, r), store, isConnected, cacheFault)
  /\ mcOutcome' = CatchReturns(isConnected /\ GetThrows(KeyOf(client, r), store, cacheFault))
  /\ mcCommands' = IF isConnected THEN 1 ELSE 0
  /\ UNCHANGED <<adapterVars, svcVars, freshVars, trendVars, validVars,
                 overlapVars, extraVars, retryTimers, retryDelays>>

\* cacheMandiPrices, cacheHistoricalData, cacheLocations, cacheProducts,
\* cacheHealthStatus.
CacheValue(r, value) ==
  /\ mcCall' = [method |-> "set", key |-> KeyOf(client, r), connected |-> isConnected,
                threw |-> isConnected /\ cacheFault]
  /\ store' = CacheSet(client, KeyOf(client, r), value, clock, store, isConnected,
                       cacheFault)
  /\ mcOutcome' = CatchReturns(isConnected /\ cacheFault)
  /\ mcCommands' = IF isConnected THEN 1 ELSE 0
  /\ UNCHANGED <<clock, client, cacheFault, isConnected, connectionRetries,
                 retryTimer, isInitialized, callVars>>
  /\ UNCHANGED <<svcVars, freshVars, trendVars, validVars, overlapVars, extraVars,
                 mcReturned, retryTimers, retryDelays>>

\* invalidateMandiPrices.
InvalidateMandiPrices(r) ==
  /\ client = "fetchMandiPrices"
  /\ mcCall' = [method |-> "invalidate", key |-> KeyOf(client, r), connected |-> isConnected,
                threw |-> isConnected /\ cacheFault]
  /\ store' = IF isConnected /\ ~cacheFault
                THEN [store EXCEPT ![KeyOf(client, r)] = NoEntry]
                ELSE store
  /\ mcOutcome' = CatchReturns(isConnected /\ cacheFault)
  /\ mcCommands' = IF isConnected THEN 1 ELSE 0
  /\ UNCHANGED <<clock, client, cacheFault, isConnected, connectionRetries,
                 retryTimer, isInitialized, callVars>>
  /\ UNCHANGED <<svcVars, freshVars, trendVars, validVars, overlapVars, extraVars,
                 mcReturned, retryTimers, retryDelays>>

ClearAll ==
  /\ mcCall' = [method |-> "clearAll", key |-> "", connected |-> isConnected,
                threw |-> isConnected /\ cacheFault]
  /\ store' = ClearAllStore(store, isConnected, cacheFault)
  /\ mcOutcome' = CatchReturns(isConnected /\ cacheFault)
  /\ mcCommands' = ClearAllCommands(store, isConnected, cacheFault)
  /\ UNCHANGED <<clock, client, cacheFault, isConnected, connectionRetries,
                 retryTimer, isInitialized, callVars>>
  /\ UNCHANGED <<svcVars, freshVars, trendVars, validVars, overlapVars, extraVars,
                 mcReturned, retryTimers, retryDelays>>

\* connect(), by the owner of the cache (connectOk: client.connect()
\* resolves). A failure schedules a retry after 2 s times the count.
ConnectCall(connectOk) ==
  /\ connectionRetries < MaxFailures
  /\ retryTimers <= MaxTimers
  /\ Connect(connectOk)
  /\ isInitialized' = TRUE
  /\ mcCall' = [method |-> "connect", key |-> "", connected |-> isConnected,
                threw |-> ~isConnected /\ ~connectOk]
  /\ mcOutcome' = "resolved"
  /\ mcCommands' = IF isConnected THEN 0 ELSE 1
  /\ IF ~isConnected /\ ~connectOk /\ SchedulesRetry(connectionRetries + 1)
       THEN /\ retryTimers' = retryTimers + 1
            /\ retryDelays' = Append(retryDelays, 2 * (connectionRetries + 1))
       ELSE /\ retryTimers' = retryTimers
            /\ retryDelays' = IF ~isConnected /\ connectOk THEN <<>>
                                 ELSE retryDelays
  /\ UNCHANGED <<clock, client, store, cacheFault, callVars>>
  /\ UNCHANGED <<svcVars, freshVars, trendVars, validVars, overlapVars, extraVars,
                 mcReturned>>

\* A retry timer fires: `() => this.connect()`.
RetryConnect(connectOk) ==
  /\ retryTimers > 0
  /\ Connect(connectOk)
  /\ mcCall' = [method |-> "retry", key |-> "", connected |-> isConnected,
                threw |-> ~isConnected /\ ~connectOk]
  /\ mcOutcome' = "resolved"
  /\ mcCommands' = IF isConnected THEN 0 ELSE 1
  /\ IF ~isConnected /\ ~connectOk /\ SchedulesRetry(connectionRetries + 1)
       THEN /\ retryTimers' = retryTimers
            /\ retryDelays' = Append(retryDelays, 2 * (connectionRetries + 1))
       ELSE /\ retryTimers' = retryTimers - 1
            /\ retryDelays' = IF ~isConnected /\ connectOk THEN <<>>
                                 ELSE retryDelays
  /\ UNCHANGED <<clock, client, store, cacheFault, isInitialized, callVars>>
  /\ UNCHANGED <<svcVars, freshVars, trendVars, validVars, overlapVars, extraVars,
                 mcReturned>>

\* Another client of the same Redis stores a value that is not the JSON this
\* class writes.
ForeignWrite(k) ==
  /\ store[k] # UnparseableEntry
  /\ store' = [store EXCEPT ![k] = UnparseableEntry]
  /\ UNCHANGED <<clock, client, cacheFault, isConnected, connectionRetries,
                 retryTimer, isInitialized, callVars>>
  /\ UNCHANGED <<svcVars, pureVars>>

CacheInit ==
  /\ clock = 0
  /\ client \in Ops
  /\ store = [k \in CacheKeys |-> NoEntry]
  /\ cacheFault = FALSE
  /\ isConnected = FALSE
  /\ connectionRetries = 0
  /\ retryTimer = FALSE
  /\ isInitialized = FALSE
  /\ pc = "idle"
  /\ NoCall
  /\ nowMin = 0
  /\ adapterKind = "cached"
  /\ SvcConstructed
  /\ NoValidation
  /\ NoTrendCall
  /\ NoPriceCheck
  /\ NoCacheCall
  /\ NoOverlap
  /\ NoFetch
  /\ NoCallers
  /\ NoCleanup
  /\ NoFactory

CacheNext ==
  \/ \E r \in Requests(client) : GetCached(r)
  \/ \E r \in Requests(client) : \E value \in CachedValues(client) :
       CacheValue(r, value)
  \/ \E r \in Requests(client) : InvalidateMandiPrices(r)
  \/ ClearAll
  \/ \E connectOk \in BOOLEAN : ConnectCall(connectOk)
  \/ \E connectOk \in BOOLEAN : RetryConnect(connectOk)
  \/ ClientDown
  \/ ClientReady
  \/ CacheFaultChange
  \/ \E k \in CacheKeys : TtlExpiry(k)
  \/ \E r \in Requests(client) : ForeignWrite(KeyOf(client, r))

CacheSpec == CacheInit /\ [][CacheNext]_vars

\* ============================================ getCurrentPrice: the match
\* One getCurrentPrice call, for a query and a source list whose product
\* names differ in case, in the space around them and in what they contain.

\* ----------------------------------------------------------------- inputs
MatchQueries ==
  { [name |-> n, category |-> c, location |-> "Delhi", quantity |-> 1,
     unit |-> "kg"] : n \in {"Onion", "Red Onion"},
                      c \in {"vegetables", "spices"} }

\* Source records: each product name has a price of its own, and is dated
\* now or seven hours ago.
MatchRecords(now) ==
  { [product |-> p.product, location |-> "Delhi", price |-> p.price,
     date |-> now - age, source |-> "government_api", verified |-> TRUE] :
      p \in { [product |-> "Onion", price |-> 2550],
              [product |-> " ONION ", price |-> 2600],
              [product |-> "Red Onion", price |-> 2700],
              [product |-> "Mixed Vegetables", price |-> 2800],
              [product |-> "Rice", price |-> 2900] },
      age \in {0, 7 * 60} }

MatchLists(now) == SeqsUpTo(MatchRecords(now), MaxRecords)

\* ---------------------------------------------------------------- actions
\* marketDataAdapter.fetchMandiPrices resolves with `mandiPrices`.
FetchMandiPricesResolves ==
  /\ \E prices \in MatchLists(nowMin) :
       /\ MandiPricesFetched(prices)
       /\ mandiPrices' = prices
  /\ UNCHANGED <<freshVars, trendVars, validVars, mcVars, overlapVars, initVars,
                 cleanupVars, factoryVars>>

MatchInit ==
  /\ clock = 0
  /\ client = "fetchMandiPrices"
  /\ store = [k \in CacheKeys |-> NoEntry]
  /\ cacheFault = FALSE
  /\ isConnected = FALSE
  /\ connectionRetries = 0
  /\ retryTimer = FALSE
  /\ isInitialized = FALSE
  /\ pc = "idle"
  /\ NoCall
  /\ nowMin = 10 * 60
  /\ adapterKind \in {"cached", "mock"}
  /\ SvcConstructed
  /\ NoValidation
  /\ NoTrendCall
  /\ NoPriceCheck
  /\ NoCacheCall
  /\ NoOverlap
  /\ NoFetch
  /\ NoCallers
  /\ NoCleanup
  /\ NoFactory

MatchNext ==
  \/ \E product \in MatchQueries : GetCurrentPrice(product)
  \/ FetchMandiPricesResolves
  \/ FetchMandiPricesRejects
  \/ GetHistoricalDataReturns
  \/ GetHistoricalDataRejects
  \/ EstimatePriceWithAIReturns
  \/ EstimatePriceWithAIRejects

MatchSpec == MatchInit /\ [][MatchNext]_vars

\* ========================================= getCurrentPrice: the cache key
\* getCurrentPrice calls, one after the other, for queries that differ from
\* one another in the name, in the category or in the location; the source
\* has a fresh record that matches every one of them.

\* ----------------------------------------------------------------- inputs
KeyTriples ==
  { <<"Onion", "vegetables", "Delhi">>,
    <<"Red Onion", "vegetables", "Delhi">>,
    <<"Onion", "spices", "Delhi">>,
    <<"Onion", "vegetables", "Mumbai">>,
    <<"Onion-red", "vegetables", "Delhi">>,
    <<"Onion", "red-vegetables", "Delhi">> }

KeyQueries ==
  { [name |-> t[1], category |-> t[2], location |-> t[3], quantity |-> 1,
     unit |-> "kg"] : t \in KeyTriples }

\* One record, dated now, at one of two prices.
KeyLists(now) ==
  { << [product |-> "Onion", location |-> "Delhi", price |-> p, date |-> now,
        source |-> "government_api", verified |-> TRUE] >> : p \in {2550, 2600} }

\* ---------------------------------------------------------------- actions
\* marketDataAdapter.fetchMandiPrices resolves with a fresh matching record.
FetchMandiPricesFresh ==
  /\ \E prices \in KeyLists(nowMin) : MandiPricesFetched(prices)
  /\ UNCHANGED pureVars

KeyInit ==
  /\ clock = 0
  /\ client = "fetchMandiPrices"
  /\ store = [k \in CacheKeys |-> NoEntry]
  /\ cacheFault = FALSE
  /\ isConnected = FALSE
  /\ connectionRetries = 0
  /\ retryTimer = FALSE
  /\ isInitialized = FALSE
  /\ pc = "idle"
  /\ NoCall
  /\ nowMin = 10 * 60
  /\ adapterKind \in {"cached", "mock"}
  /\ SvcConstructed
  /\ NoValidation
  /\ NoTrendCall
  /\ NoPriceCheck
  /\ NoCacheCall
  /\ NoOverlap
  /\ NoFetch
  /\ NoCallers
  /\ NoCleanup
  /\ NoFactory

KeyNext ==
  \/ \E product \in KeyQueries : GetCurrentPrice(product)
  \/ FetchMandiPricesFresh
  \/ FetchMandiPricesRejects
  \/ SvcReturn
  \/ Cleanup

KeySpec == KeyInit /\ [][KeyNext]_vars

\* ============================== CachedMarketDataAdapter: initialization
\* Two callers of one CachedMarketDataAdapter. Each calls initialize() or a
\* method that starts with `if (!this.isInitialized) await this.initialize()`;
\* a call runs to its first await in one step, and a second call may start
\* while the first waits for `this.client.connect()`. cleanup() is not called.

\* ----------------------------------------------------------------- inputs
AdapterMethods == {"initialize"} \cup Ops

\* ---------------------------------------------------------------- actions
\* MarketDataCache.connect: `if (!this.isConnected)`.
CallsClientConnect(connected) == ~connected

\* A method of the adapter is called: initialize() up to the await in
\* MarketDataCache.connect.
AdapterCalled(c, method) ==
  /\ callers[c].pc = "idle"
  /\ IF isInitialized
       THEN /\ callers' = [callers EXCEPT ![c] = [method |-> method, pc |-> "done"]]
            /\ UNCHANGED <<cacheConnects, clientConnects, connectedAtConnect>>
       ELSE /\ cacheConnects' = cacheConnects + 1
            /\ IF CallsClientConnect(isConnected)
                 THEN /\ clientConnects' = clientConnects + 1
                      /\ connectedAtConnect' = (connectedAtConnect \/ isConnected)
                      /\ callers' = [callers EXCEPT
                                       ![c] = [method |-> method, pc |-> "connecting"]]
                 ELSE /\ callers' = [callers EXCEPT
                                       ![c] = [method |-> method, pc |-> "connected"]]
                      /\ UNCHANGED <<clientConnects, connectedAtConnect>>
  /\ UNCHANGED <<adapterVars, svcVars, freshVars, trendVars, validVars, mcVars,
                 overlapVars, matchVars, cleanupVars, factoryVars>>

\* The client of caller c's `this.client.connect()` emits 'ready'.
ClientEmitsReady(c) ==
  /\ callers[c].pc = "connecting"
  /\ isConnected' = TRUE
  /\ callers' = [callers EXCEPT ![c].pc = "ready"]
  /\ UNCHANGED <<clock, client, store, cacheFault, connectionRetries, retryTimer,
                 isInitialized, callVars>>
  /\ UNCHANGED <<svcVars, freshVars, trendVars, validVars, mcVars, overlapVars,
                 matchVars, cleanupVars, factoryVars, cacheConnects, clientConnects, connectedAtConnect>>

\* `await this.client.connect()` resolves; connect() returns and initialize()
\* sets isInitialized.
ClientConnectResolves(c) ==
  /\ callers[c].pc = "ready"
  /\ isConnected' = TRUE
  /\ connectionRetries' = 0
  /\ isInitialized' = TRUE
  /\ callers' = [callers EXCEPT ![c].pc = "done"]
  /\ UNCHANGED <<clock, client, store, cacheFault, retryTimer, callVars>>
  /\ UNCHANGED <<svcVars, freshVars, trendVars, validVars, mcVars, overlapVars,
                 matchVars, cleanupVars, factoryVars, cacheConnects, clientConnects, connectedAtConnect>>

\* `await this.client.connect()` rejects: the catch of connect() counts the
\* failure and schedules a retry; connect() returns and initialize() sets
\* isInitialized.
ClientConnectRejects(c) ==
  /\ callers[c].pc = "connecting"
  /\ connectionRetries' = connectionRetries + 1
  /\ retryTimers' = retryTimers
                      + (IF SchedulesRetry(connectionRetries + 1) THEN 1 ELSE 0)
  /\ isInitialized' = TRUE
  /\ callers' = [callers EXCEPT ![c].pc = "done"]
  /\ UNCHANGED <<clock, client, store, cacheFault, isConnected, retryTimer, callVars>>
  /\ UNCHANGED <<svcVars, freshVars, trendVars, validVars, overlapVars, matchVars, cleanupVars, factoryVars,
                 mcCall, mcReturned, mcOutcome, mcCommands, retryDelays,
                 cacheConnects, clientConnects, connectedAtConnect>>

\* connect() had nothing to do and returned: initialize() sets isInitialized.
InitializeResumes(c) ==
  /\ callers[c].pc = "connected"
  /\ isInitialized' = TRUE
  /\ callers' = [callers EXCEPT ![c].pc = "done"]
  /\ UNCHANGED <<clock, client, store, cacheFault, isConnected, connectionRetries,
                 retryTimer, callVars>>
  /\ UNCHANGED <<svcVars, freshVars, trendVars, validVars, mcVars, overlapVars,
                 matchVars, cleanupVars, factoryVars, cacheConnects, clientConnects, connectedAtConnect>>

\* The call of caller c ends.
CallerReturns(c) ==
  /\ callers[c].pc = "done"
  /\ callers' = [callers EXCEPT ![c] = [method |-> "none", pc |-> "idle"]]
  /\ UNCHANGED <<adapterVars, svcVars, freshVars, trendVars, validVars, mcVars,
                 overlapVars, matchVars, cleanupVars, factoryVars, cacheConnects, clientConnects,
                 connectedAtConnect>>

\* A retry timer fires: `() => this.connect()`, to its end.
TimerConnects(connectOk) ==
  /\ retryTimers > 0
  /\ IF ~CallsClientConnect(isConnected)
       THEN /\ retryTimers' = retryTimers - 1
            /\ UNCHANGED <<isConnected, connectionRetries, clientConnects,
                           connectedAtConnect>>
       ELSE /\ clientConnects' = clientConnects + 1
            /\ connectedAtConnect' = (connectedAtConnect \/ isConnected)
            /\ IF connectOk
                 THEN /\ isConnected' = TRUE
                      /\ connectionRetries' = 0
                      /\ retryTimers' = retryTimers - 1
                 ELSE /\ connectionRetries' = connectionRetries + 1
                      /\ retryTimers' =
                           retryTimers - 1
                             + (IF SchedulesRetry(connectionRetries + 1) THEN 1 ELSE 0)
                      /\ UNCHANGED isConnected
  /\ UNCHANGED <<clock, client, store, cacheFault, retryTimer, isInitialized,
                 callVars>>
  /\ UNCHANGED <<svcVars, freshVars, trendVars, validVars, overlapVars, matchVars, cleanupVars, factoryVars,
                 mcCall, mcReturned, mcOutcome, mcCommands, retryDelays,
                 callers, cacheConnects>>

InitializeInit ==
  /\ clock = 0
  /\ client = "fetchMandiPrices"
  /\ store = [k \in CacheKeys |-> NoEntry]
  /\ cacheFault = FALSE
  /\ isConnected = FALSE
  /\ connectionRetries = 0
  /\ retryTimer = FALSE
  /\ isInitialized = FALSE
  /\ pc = "idle"
  /\ NoCall
  /\ nowMin = 0
  /\ adapterKind = "cached"
  /\ SvcConstructed
  /\ NoValidation
  /\ NoTrendCall
  /\ NoPriceCheck
  /\ NoCacheCall
  /\ NoOverlap
  /\ NoFetch
  /\ NoCallers
  /\ NoCleanup
  /\ NoFactory

InitializeNext ==
  \/ \E c \in 1..2, method \in AdapterMethods : AdapterCalled(c, method)
  \/ \E c \in 1..2 : ClientEmitsReady(c)
  \/ \E c \in 1..2 : ClientConnectResolves(c)
  \/ \E c \in 1..2 : ClientConnectRejects(c)
  \/ \E c \in 1..2 : InitializeResumes(c)
  \/ \E c \in 1..2 : CallerReturns(c)
  \/ \E connectOk \in BOOLEAN : TimerConnects(connectOk)
  \/ ClientDown

InitializeSpec == InitializeInit /\ [][InitializeNext]_vars

\* ======================================== cleanup() during getCurrentPrice
\* getCurrentPrice calls and cleanup() calls on one service; cleanup() may
\* run to its end while a getCurrentPrice call waits for fetchMandiPrices.
\* No call is started once that has happened.

\* cleanup(), while getCurrentPrice awaits fetchMandiPrices.
CleanupInFlight ==
  /\ svcPc = "fetch"
  /\ PriceCacheCleared
  /\ cleanedInFlight' = TRUE
  /\ UNCHANGED <<freshVars, trendVars, validVars, mcVars, overlapVars, matchVars,
                 initVars, factoryVars>>

CleanupInit ==
  /\ clock = 0
  /\ client = "fetchMandiPrices"
  /\ store = [k \in CacheKeys |-> NoEntry]
  /\ cacheFault = FALSE
  /\ isConnected = FALSE
  /\ connectionRetries = 0
  /\ retryTimer = FALSE
  /\ isInitialized = FALSE
  /\ pc = "idle"
  /\ NoCall
  /\ nowMin = 10 * 60
  /\ adapterKind \in {"cached", "mock"}
  /\ SvcConstructed
  /\ NoValidation
  /\ NoTrendCall
  /\ NoPriceCheck
  /\ NoCacheCall
  /\ NoOverlap
  /\ NoFetch
  /\ NoCallers
  /\ NoCleanup
  /\ NoFactory

CleanupNext ==
  \/ \E product \in KeyQueries : ~cleanedInFlight /\ GetCurrentPrice(product)
  \/ FetchMandiPricesFresh
  \/ FetchMandiPricesRejects
  \/ SvcReturn
  \/ Cleanup
  \/ CleanupInFlight

CleanupSpec == CleanupInit /\ [][CleanupNext]_vars

\* ====================================================== MarketDataFactory
\* Two callers of MarketDataFactory.getInstance, and resetInstance(). A
\* getInstance call runs to `await this.createAdapter(options)` in one step
\* and from there to its end in another.

\* ------------------------------------------------------------------ bound
MaxAdapters == 3

\* ----------------------------------------------------------------- inputs
\* `options`: useCache and adapterType, each given or not.
FactoryOptions ==
  [useCache : {"unset", "true", "false"},
   adapterType : {"unset", "cached", "government"}]

\* createAdapter: the class of the adapter constructed.
AdapterClass(isTest, options) ==
  LET useCache == options.useCache # "false"
      adapterType == IF options.adapterType # "unset" THEN options.adapterType
                     ELSE IF useCache THEN "cached" ELSE "government"
  IN IF isTest THEN "MockMarketDataAdapter"
     ELSE IF adapterType = "cached" THEN "CachedMarketDataAdapter"
     ELSE "GovernmentMarketDataAdapter"

\* getInstance: `if (isTestEnvironment || !this.instance)`.
CreatesAdapter(isTest, current) == isTest \/ current = NoAdapter

\* ---------------------------------------------------------------- actions
\* getInstance(options), up to `await this.createAdapter(options)`.
GetInstance(c, options) ==
  /\ getCalls[c].pc = "idle"
  /\ IF CreatesAdapter(testEnvironment, instance)
       THEN /\ adaptersMade < MaxAdapters
            /\ adaptersMade' = adaptersMade + 1
            /\ madeSinceReset' = madeSinceReset \cup {adaptersMade + 1}
            /\ getCalls' =
                 [getCalls EXCEPT
                    ![c] = [pc |-> "creating",
                            creating |-> [id |-> adaptersMade + 1,
                                          type |-> AdapterClass(testEnvironment,
                                                                options)],
                            resolved |-> NoAdapter]]
            /\ UNCHANGED resolvedSinceReset
       ELSE /\ getCalls' = [getCalls EXCEPT ![c] = [pc |-> "done",
                                                     creating |-> NoAdapter,
                                                     resolved |-> instance]]
            /\ resolvedSinceReset' = resolvedSinceReset \cup {instance.id}
            /\ UNCHANGED <<adaptersMade, madeSinceReset>>
  /\ UNCHANGED <<adapterVars, svcVars, freshVars, trendVars, validVars, mcVars,
                 overlapVars, matchVars, initVars, cleanupVars, testEnvironment,
                 instance>>

\* createAdapter resolves: `this.instance = ...; return this.instance`.
CreateAdapterResolves(c) ==
  /\ getCalls[c].pc = "creating"
  /\ instance' = getCalls[c].creating
  /\ getCalls' = [getCalls EXCEPT ![c] = [pc |-> "done", creating |-> NoAdapter,
                                          resolved |-> getCalls[c].creating]]
  /\ resolvedSinceReset' = resolvedSinceReset \cup {getCalls[c].creating.id}
  /\ UNCHANGED <<adapterVars, svcVars, freshVars, trendVars, validVars, mcVars,
                 overlapVars, matchVars, initVars, cleanupVars, testEnvironment,
                 adaptersMade, madeSinceReset>>

\* The caller takes the adapter.
GetInstanceReturns(c) ==
  /\ getCalls[c].pc = "done"
  /\ getCalls' = [getCalls EXCEPT ![c] = NoGetCall]
  /\ UNCHANGED <<adapterVars, svcVars, freshVars, trendVars, validVars, mcVars,
                 overlapVars, matchVars, initVars, cleanupVars, testEnvironment,
                 instance, adaptersMade, madeSinceReset, resolvedSinceReset>>

\* resetInstance(), while no getInstance call is pending.
ResetInstance ==
  /\ \A c \in 1..2 : getCalls[c].pc = "idle"
  /\ instance # NoAdapter
  /\ instance' = NoAdapter
  /\ madeSinceReset' = {}
  /\ resolvedSinceReset' = {}
  /\ UNCHANGED <<adapterVars, svcVars, freshVars, trendVars, validVars, mcVars,
                 overlapVars, matchVars, initVars, cleanupVars, testEnvironment,
                 adaptersMade, getCalls>>

FactoryInit ==
  /\ clock = 0
  /\ client = "fetchMandiPrices"
  /\ store = [k \in CacheKeys |-> NoEntry]
  /\ cacheFault = FALSE
  /\ isConnected = FALSE
  /\ connectionRetries = 0
  /\ retryTimer = FALSE
  /\ isInitialized = FALSE
  /\ pc = "idle"
  /\ NoCall
  /\ nowMin = 0
  /\ adapterKind = "cached"
  /\ SvcConstructed
  /\ NoValidation
  /\ NoTrendCall
  /\ NoPriceCheck
  /\ NoCacheCall
  /\ NoOverlap
  /\ NoFetch
  /\ NoCallers
  /\ NoCleanup
  /\ testEnvironment \in BOOLEAN
  /\ instance = NoAdapter
  /\ adaptersMade = 0
  /\ getCalls = [c \in 1..2 |-> NoGetCall]
  /\ madeSinceReset = {}
  /\ resolvedSinceReset = {}

FactoryNext ==
  \/ \E c \in 1..2, options \in FactoryOptions : GetInstance(c, options)
  \/ \E c \in 1..2 : CreateAdapterResolves(c)
  \/ \E c \in 1..2 : GetInstanceReturns(c)
  \/ ResetInstance

FactorySpec == FactoryInit /\ [][FactoryNext]_vars

\* ================================================ overlapping getCurrentPrice
\* Two calls of getCurrentPrice for one product, sharing the priceCache of
\* the service. A call runs from its start to its first await in one step,
\* and from the resolution of fetchMandiPrices to its end in another:
\* estimatePrice, awaited in between when there is no fresh official price,
\* neither reads nor writes the priceCache.

\* ----------------------------------------------------------------- inputs
OverlapQuery ==
  [name |-> "Onion", category |-> "vegetables", location |-> "Delhi",
   quantity |-> 1, unit |-> "kg"]

\* What `await this.estimatePrice(product)` may produce: an estimate of the
\* AI service or of the statistical fallback, for each history, or a
\* rejection when getHistoricalData rejects (the mock provider).
EstimateOutcomes(kind, product, now) ==
  UNION { { [threw |-> FALSE, value |-> e] : e \in AiEstimates(product, h, now) }
            \cup { AiFailureFallback(product, h, now) } : h \in Histories }
    \cup (IF kind = "mock" THEN { [threw |-> TRUE, value |-> NoEstimate] } ELSE {})

\* Variant: an entry already present is kept.
PriceCacheKeep(cache, key, info, now) ==
  cache @@ (key :> [data |-> info, timestamp |-> now])

\* this.priceCache.set(cacheKey, { data: priceInfo, timestamp: new Date() })
PriceCacheSet(cache, key, info, now) ==
  (key :> [data |-> info, timestamp |-> now]) @@ cache

\* ---------------------------------------------------------------- actions
\* The call ends, rejecting.
CallRejects(c) ==
  /\ calls' = [calls EXCEPT ![c].pc = "done", ![c].outcome = "rejected",
                            ![c].doneAt = nowMin]
  /\ completed' = Append(completed, c)
  /\ UNCHANGED priceCache

\* formatPriceInfo, validation, priceCache.set and return.
CallFinishes(c, info) ==
  IF FormatThrows(info) \/ ~ValidatePriceData(FormatPriceInfo(info), nowMin)
    THEN CallRejects(c)
    ELSE /\ priceCache' = PriceCacheSet(priceCache, GenerateCacheKey(OverlapQuery),
                                        FormatPriceInfo(info), nowMin)
         /\ calls' = [calls EXCEPT ![c].pc = "done", ![c].outcome = "resolved",
                                   ![c].result = FormatPriceInfo(info),
                                   ![c].doneAt = nowMin]
         /\ completed' = Append(completed, c)

\* getCurrentPrice(OverlapQuery) up to its first await.
CallStarts(c) ==
  /\ calls[c].pc = "idle"
  /\ overlapped' = (overlapped \/ \E d \in 1..2 : calls[d].pc = "fetch")
  /\ IF /\ GenerateCacheKey(OverlapQuery) \in DOMAIN priceCache
        /\ IsCacheValid(priceCache[GenerateCacheKey(OverlapQuery)].timestamp,
                        nowMin)
       THEN /\ calls' = [calls EXCEPT
                           ![c].pc = "done", ![c].outcome = "resolved",
                           ![c].result =
                              priceCache[GenerateCacheKey(OverlapQuery)].data,
                           ![c].doneAt = nowMin]
            /\ completed' = Append(completed, c)
       ELSE /\ calls' = [calls EXCEPT ![c].pc = "fetch",
                                      ![c].fetches = @ + 1]
            /\ UNCHANGED completed
  /\ UNCHANGED <<adapterVars, freshVars, trendVars, validVars, mcVars, extraVars, nowMin,
                 adapterKind, priceCache, lastResolved, svcCallVars>>

\* fetchMandiPrices resolves and the call runs to its end.
CallFetched(c) ==
  /\ calls[c].pc = "fetch"
  /\ \E prices \in MandiLists(nowMin) :
       LET i == FindMatch(prices, OverlapQuery)
       IN IF i # 0 /\ AdapterValidateDataFreshness(adapterKind, prices[i], nowMin)
            THEN CallFinishes(c, ConvertMandiPriceToPriceInfo(prices[i], "official"))
            ELSE \E estimate \in EstimateOutcomes(adapterKind, OverlapQuery, nowMin) :
                   IF estimate.threw
                     THEN CallRejects(c)
                     ELSE CallFinishes(c, EstimatedPriceInfo(estimate.value, nowMin))
  /\ UNCHANGED <<adapterVars, freshVars, trendVars, validVars, mcVars, extraVars, nowMin,
                 adapterKind, lastResolved, svcCallVars, overlapped>>

\* fetchMandiPrices rejects (the mock provider when unhealthy).
CallFetchRejects(c) ==
  /\ calls[c].pc = "fetch"
  /\ adapterKind = "mock"
  /\ CallRejects(c)
  /\ UNCHANGED <<adapterVars, freshVars, trendVars, validVars, mcVars, extraVars, nowMin,
                 adapterKind, lastResolved, svcCallVars, overlapped>>

OverlapInit ==
  /\ clock = 0
  /\ client = "fetchMandiPrices"
  /\ store = [k \in CacheKeys |-> NoEntry]
  /\ cacheFault = FALSE
  /\ isConnected = FALSE
  /\ connectionRetries = 0
  /\ retryTimer = FALSE
  /\ isInitialized = FALSE
  /\ pc = "idle"
  /\ NoCall
  /\ nowMin = 10 * 60
  /\ adapterKind \in {"cached", "mock"}
  /\ SvcConstructed
  /\ NoValidation
  /\ NoTrendCall
  /\ NoPriceCheck
  /\ NoCacheCall
  /\ NoOverlap
  /\ NoFetch
  /\ NoCallers
  /\ NoCleanup
  /\ NoFactory

OverlapNext ==
  \/ \E c \in 1..2 : CallStarts(c)
  \/ \E c \in 1..2 : CallFetched(c)
  \/ \E c \in 1..2 : CallFetchRejects(c)
  \/ SvcTick

OverlapSpec == OverlapInit /\ [][OverlapNext]_vars

\* ================================================================ claims
ListOps == {"fetchMandiPrices", "getHistoricalData"}
RetryOps == Ops \ {"checkApiHealth"}

\* What a cache read issued right now would return for the call's key.
ReadNow == CacheGet(op, KeyOf(op, req), store, isConnected, cacheFault)

AllStale(list, t) ==
  \A i \in 1..Len(list) : ~CachedValidateDataFreshness(list[i], t)

\* C1: when the source request of fetchMandiPrices fails and the cache holds
\* a non-empty, entirely stale entry for the key, the call returns that
\* entry and not an empty list.
C1_StaleEntryReturnedOnSourceFailure ==
  ( /\ pc = "done"
    /\ op = "fetchMandiPrices"
    /\ srcOutcome = "failed"
    /\ cached.hit
    /\ Len(cached.value) > 0
    /\ AllStale(cached.value, clock)
    /\ ReadNow = cached )
  => result = cached.value

\* C2: fetchMandiPrices and getHistoricalData call the source adapter exactly
\* once when the lookup gave no fresh hit (missing, empty or entirely stale
\* entry) and not at all when it gave one.
FreshHitSeen ==
  /\ cached.hit
  /\ IF op = "fetchMandiPrices"
       THEN \E i \in 1..Len(cached.value) :
              CachedValidateDataFreshness(cached.value[i], clock)
       ELSE Len(cached.value) > 0

C2_SourceCalledIffNoFreshHit ==
  (op \in ListOps /\ pc \in {"request", "backoff", "write", "done"})
  => /\ srcCalls = (IF FreshHitSeen THEN 0 ELSE 1)
     /\ FreshHitSeen => (attemptLog = <<>> /\ pc = "done")

C2_Witness ==
  /\ pc = "done"
  /\ op = "fetchMandiPrices"
  /\ FreshHitSeen
  /\ srcCalls = 0
  /\ Len(result) < Len(cached.value)

\* C3: with the source failing and the cache unavailable for the whole call,
\* fetchMandiPrices and getHistoricalData resolve with an empty list and the
\* catalog methods with the hard-coded default catalog; none rejects.
C3_BothUnavailable ==
  (pc = "done" /\ op \in RetryOps /\ srcOutcome = "failed" /\ ~cacheUp)
  => /\ outcome = "resolved"
     /\ result = (CASE op = "getSupportedLocations" -> DefaultLocations
                    [] op = "getSupportedProducts" -> DefaultProducts
                    [] OTHER -> <<>>)

C3_Witness ==
  /\ pc = "done"
  /\ op = "getSupportedProducts"
  /\ srcOutcome = "failed"
  /\ ~cacheUp
  /\ cacheWrites = 1
  /\ result = DefaultProducts

\* C4 as stated: whenever fetchMandiPrices or getHistoricalData returns a
\* value obtained from a successful source fetch while the cache is connected
\* and working, a cache read of the key right afterwards returns that value.
ReadBackEqualsResult ==
  CacheGet(op', KeyOf(op', req'), store', TRUE, FALSE)
    = [hit |-> TRUE, value |-> result']

ReturnsSourceValue ==
  /\ pc # "done"
  /\ pc' = "done"
  /\ op' \in ListOps
  /\ srcOutcome' = "ok"
  /\ isConnected
  /\ ~cacheFault

C4_WriteThroughEverySuccess ==
  [][ReturnsSourceValue => ReadBackEqualsResult]_vars

\* C4 amended: the same, for a non-empty value obtained from the source.
C4_WriteThroughNonEmpty ==
  [][(ReturnsSourceValue /\ result' # <<>>) => ReadBackEqualsResult]_vars

C4_Witness ==
  /\ pc = "done"
  /\ op = "fetchMandiPrices"
  /\ srcOutcome = "ok"
  /\ cached.hit
  /\ result # <<>>
  /\ result # cached.value
  /\ ReadNow = [hit |-> TRUE, value |-> result]

\* C5: every fetchMandiPrices call returns, after at most two cache reads,
\* one cache write and three HTTP attempts separated by finite waits.
C5_FetchTerminates ==
  /\ [](op = "fetchMandiPrices"
          => /\ cacheReads <= 2
             /\ cacheWrites <= 1
             /\ Len(attemptLog) <= 3
             /\ \A i \in 1..Len(waits) : waits[i] <= 2)
  /\ ((op = "fetchMandiPrices" /\ pc = "lookup") ~> (pc = "done"))

C5_Witness ==
  /\ pc = "done"
  /\ op = "fetchMandiPrices"
  /\ Len(attemptLog) = 3
  /\ Len(waits) = 2
  /\ ~cached.hit

ValidQuery(product) == ValidateProductQuery(product) = {}

InRange(info) ==
  /\ info.minimum <= info.current /\ info.current <= info.maximum
  /\ info.minimum <= info.average /\ info.average <= info.maximum
  /\ 0 <= info.confidence /\ info.confidence <= 100

\* C6: every PriceInfo getCurrentPrice resolves with (official data, an
\* estimate, or an entry of the short-term cache) has minimum <= current <=
\* maximum, minimum <= average <= maximum and 0 <= confidence <= 1.
C6_ReturnedPriceInfoInRange ==
  (svcPc = "done" /\ svcOp = "getCurrentPrice" /\ svcOutcome = "resolved")
  => (ValidQuery(query) /\ InRange(svcResult))

C6_Witness ==
  /\ svcPc = "done"
  /\ svcOp = "getCurrentPrice"
  /\ svcOutcome = "resolved"
  /\ svcResult.source = "official"
  /\ svcResult.minimum < svcResult.current
  /\ svcResult.current < svcResult.maximum
  /\ svcResult.lastUpdated < nowMin

\* C7 as stated: for a valid query getCurrentPrice never rejects.
C7_ValidQueryNeverRejects ==
  (svcPc = "done" /\ svcOp = "getCurrentPrice" /\ ValidQuery(query))
  => svcOutcome = "resolved"

\* The PriceInfo the call built does not survive formatPriceInfo and
\* validatePriceData.
BuiltInvalidPriceInfo ==
  /\ priceInfo # NoPriceInfo
  /\ \/ FormatThrows(priceInfo)
     \/ ~ValidatePriceData(FormatPriceInfo(priceInfo), nowMin)

\* C7 amended: for a valid query getCurrentPrice absorbs a failure of the AI
\* estimator (statistical or category-baseline estimate instead), and rejects,
\* with `Failed to get price for <name>: ...`, exactly when the market-data
\* adapter rejects or the PriceInfo it built fails formatting or validation.
C7_RejectsOnAdapterFailureOrInvalidPrice ==
  (svcPc = "done" /\ svcOp = "getCurrentPrice" /\ ValidQuery(query))
  => /\ (svcOutcome = "rejected") <=> (adapterThrew \/ BuiltInvalidPriceInfo)
     /\ (svcOutcome = "resolved") <=> ~(adapterThrew \/ BuiltInvalidPriceInfo)
     /\ svcOutcome = "rejected"
          => (Len(svcError) = 3 /\ svcError[1] = "Failed to get price for"
                /\ svcError[2] = query.name)

C7_Witness ==
  /\ svcPc = "done"
  /\ svcOp = "getCurrentPrice"
  /\ ValidQuery(query)
  /\ aiThrew
  /\ historicalData = <<>>
  /\ svcOutcome = "resolved"
  /\ svcResult.current = CategoryBasePrice(query.category) * 100
  /\ svcResult.confidence = 24

\* A getCurrentPrice call starts while the result last computed for its
\* (name, category, location) was cached less than 5 minutes ago.
RepeatsWithinTtl ==
  /\ svcPc = "idle"
  /\ svcPc' # "idle"
  /\ svcOp' = "getCurrentPrice"
  /\ QueryTriple(query') \in DOMAIN lastResolved
  /\ nowMin - lastResolved[QueryTriple(query')].cachedAt < CacheTtlMinutes

ServedIdentically ==
  /\ svcPc' = "done"
  /\ svcOutcome' = "resolved"
  /\ svcResult' = lastResolved[QueryTriple(query')].result
  /\ adapterCalls' = 0
  /\ aiCalls' = 0

\* C8 as stated: a second getCurrentPrice with the same name, category and
\* location, made less than 5 minutes after the first result was cached and
\* with no cleanup() in between, resolves with the identical result and calls
\* neither the adapter nor the AI service.
C8_SameKeyServedIdentically ==
  [][RepeatsWithinTtl => ServedIdentically]_vars

\* C8 amended: the same, for a second query that is itself valid.
C8_ValidSameKeyServedIdentically ==
  [][(RepeatsWithinTtl /\ ValidQuery(query')) => ServedIdentically]_vars

C8_Witness ==
  /\ svcPc = "done"
  /\ svcOp = "getCurrentPrice"
  /\ svcOutcome = "resolved"
  /\ adapterCalls = 0
  /\ query.quantity = 5
  /\ QueryTriple(query) \in DOMAIN lastResolved
  /\ svcResult = lastResolved[QueryTriple(query)].result
  /\ svcResult.source = "estimated"
  /\ nowMin - lastResolved[QueryTriple(query)].cachedAt = CacheTtlMinutes - 1

\* C9: makeRequestWithRetry makes at most 3 attempts; a 4xx failure ends the
\* request at once; any other failure on attempt k < 3 is followed by a wait
\* of 2^(k-1) seconds and another attempt; a success ends the request.
Retryable(kind) == kind \in {"http5xx", "network"}

C9_RetryPolicy ==
  op \in RetryOps =>
    LET n == Len(attemptLog) IN
      /\ n <= 3
      /\ \A k \in 1..(n - 1) : Retryable(attemptLog[k])
      /\ \A k \in 1..Len(waits) : waits[k] = (IF k = 1 THEN 1 ELSE 2)
      /\ pc = "request" => (attempt = n + 1 /\ attempt <= 3 /\ Len(waits) = n
                             /\ srcOutcome = "none")
      /\ pc = "backoff" => (n >= 1 /\ n < 3 /\ Retryable(attemptLog[n])
                             /\ Len(waits) = n /\ srcOutcome = "none")
      /\ srcOutcome # "none" =>
           /\ n >= 1
           /\ Len(waits) = n - 1
           /\ (srcOutcome = "ok") = (attemptLog[n] = "ok")
           /\ attemptLog[n] = "ok" \/ attemptLog[n] = "http4xx" \/ n = 3

C9_Witness ==
  /\ op = "getHistoricalData"
  /\ attemptLog = <<"network", "http5xx", "ok">>
  /\ waits = <<1, 2>>

\* C10: when every attempt of its request fails, a GovernmentMarketDataAdapter
\* method does not reject: it returns an empty list (prices, history), the
\* hard-coded default catalog (locations, products) or false (health).
C10_SourceAdapterNeverRaises ==
  srcOutcome = "failed" =>
    /\ ~apiThrew
    /\ CASE op = "getSupportedLocations" ->
              apiData = <<"Delhi", "Mumbai", "Bangalore", "Chennai", "Kolkata",
                          "Hyderabad", "Pune", "Ahmedabad", "Jaipur", "Lucknow">>
         [] op = "getSupportedProducts" ->
              apiData = <<"Rice", "Wheat", "Onion", "Potato", "Tomato", "Garlic",
                          "Ginger", "Turmeric", "Coriander", "Cumin">>
         [] op = "checkApiHealth" -> apiData = FALSE
         [] OTHER -> apiData = <<>>

C10_Witness ==
  /\ pc = "done"
  /\ op = "checkApiHealth"
  /\ srcOutcome = "failed"
  /\ attemptLog = <<"http5xx">>
  /\ result = FALSE

\* Age of the record, in minutes, at the call.
VAge == vNow - vData.date

\* C11: CachedMarketDataAdapter.validateDataFreshness, on a verified record
\* with a positive price: between 06:00 and 18:00 local time the record is
\* fresh iff it is less than 6 hours old; before 06:00 and after 18:00 it is
\* fresh iff it is less than 12 hours old.
C11_FreshnessByMarketHours ==
  (vPc = "done" /\ vData.verified /\ vData.price > 0)
  => vFresh.cached =
       (IF vNow >= 6 * 60 /\ vNow <= 18 * 60 THEN VAge < 6 * 60
        ELSE VAge < 12 * 60)

\* C12: GovernmentMarketDataAdapter.validateDataFreshness returns true iff
\* the record is less than 24 hours old, verified and priced above 0; no
\* adapter (government, cached, mock) accepts a record older than 24 hours
\* or an unverified one.
C12_ValidateDataFreshness ==
  vPc = "done" =>
    /\ vFresh.government = (VAge < 24 * 60 /\ vData.verified /\ vData.price > 0)
    /\ (VAge > 24 * 60 \/ ~vData.verified)
         => (~vFresh.government /\ ~vFresh.cached /\ ~vFresh.mock)

C12_Witness ==
  /\ vPc = "done"
  /\ vData.verified
  /\ vData.price > 0
  /\ VAge = 24 * 60 + 59
  /\ vFresh = [government |-> FALSE, cached |-> FALSE, mock |-> FALSE]

\* getCurrentPrice has fetched the source records and settled.
FetchedAndSettled ==
  /\ svcPc = "done"
  /\ svcOp = "getCurrentPrice"
  /\ adapterCalls >= 1
  /\ ~adapterThrew

\* The first source record matching the query exists and passes the freshness
\* check of the injected adapter.
FreshMatch ==
  /\ matchingPrice # NoRecord
  /\ AdapterValidateDataFreshness(adapterKind, matchingPrice, nowMin)

\* C13: when the first source record matching the query passes the adapter's
\* freshness check and has price p, the result of getCurrentPrice has source
\* 'official', current = average = p, minimum = 0.95 p, maximum = 1.05 p
\* (rounded to two decimals), confidence 0.95 and the record's date as
\* lastUpdated.
C13_OfficialPath ==
  (FetchedAndSettled /\ FreshMatch /\ svcOutcome = "resolved")
  => svcResult = [source |-> "official",
                  current |-> matchingPrice.price,
                  average |-> matchingPrice.price,
                  minimum |-> RoundDiv(matchingPrice.price * 95, 100),
                  maximum |-> RoundDiv(matchingPrice.price * 105, 100),
                  confidence |-> 95,
                  lastUpdated |-> matchingPrice.date]

C13_Witness ==
  /\ FetchedAndSettled
  /\ FreshMatch
  /\ svcOutcome = "resolved"
  /\ matchingPrice.price = 2550
  /\ matchingPrice.date = nowMin - 7 * 60
  /\ svcResult.minimum = 2423
  /\ svcResult.maximum = 2678

\* C14: when no source record matches the query, or the matched record fails
\* the freshness check, the result of getCurrentPrice has source 'estimated',
\* the current, minimum, maximum and average of the estimate estimatePrice
\* returned, and 0.8 times its confidence, rounded to two decimals.
C14_EstimationPath ==
  (FetchedAndSettled /\ ~FreshMatch /\ svcOutcome = "resolved")
  => /\ svcResult.source = "estimated"
     /\ svcResult.current = estimatedPrice.current
     /\ svcResult.minimum = estimatedPrice.minimum
     /\ svcResult.maximum = estimatedPrice.maximum
     /\ svcResult.average = estimatedPrice.average
     /\ svcResult.confidence = RoundDiv(estimatedPrice.confidence * 8, 10)

C14_Witness ==
  /\ FetchedAndSettled
  /\ matchingPrice # NoRecord
  /\ ~FreshMatch
  /\ svcOutcome = "resolved"
  /\ svcResult.source = "estimated"
  /\ estimatedPrice.confidence = 90
  /\ svcResult.confidence = 72

\* estimatePrice has returned an estimate, to its caller or to getCurrentPrice.
EstimateReturned ==
  /\ svcPc = "done"
  /\ svcOp \in {"estimatePrice", "getCurrentPrice"}
  /\ estimatedPrice # NoEstimate

IsCategoryBaseline(estimated) ==
  /\ estimated.estimationMethod = "category_baseline"
  /\ estimated.confidence = 30
  /\ estimated.historicalBasis = <<>>
  /\ estimated.current = CategoryBasePrice(query.category) * 100

\* C15 as stated: whenever the adapter returns zero historical points,
\* estimatePrice returns the category-baseline estimate (estimationMethod
\* 'category_baseline', confidence 0.3, empty historicalBasis, current equal
\* to the per-category base price).
C15_EmptyHistoryBaseline ==
  (EstimateReturned /\ historicalData = <<>>)
  => IsCategoryBaseline(estimatedPrice)

\* C15 amended: when the adapter returns zero historical points and
\* aiService.estimatePriceWithAI rejects, estimatePrice returns the
\* category-baseline estimate; when the AI service resolves, estimatePrice
\* returns the AI estimate instead.
C15_EmptyHistoryBaselineOnAiFailure ==
  (EstimateReturned /\ historicalData = <<>>)
  => IF aiThrew THEN IsCategoryBaseline(estimatedPrice)
     ELSE estimatedPrice.estimationMethod \in
            {"llm_category_based", "mock_ai_estimation"}

C15_Witness ==
  /\ EstimateReturned
  /\ svcOp = "estimatePrice"
  /\ svcOutcome = "resolved"
  /\ historicalData = <<>>
  /\ aiThrew
  /\ estimatedPrice.current = 3000
  /\ estimatedPrice.estimationMethod = "category_baseline"

\* C16: if aiService.estimatePriceWithAI rejects, estimatePrice still resolves,
\* with the statistical estimate when the history is non-empty and with the
\* category baseline when it is empty; if aiService.generateMarketSentiment
\* rejects, getMarketSentiment still resolves with the statistically derived
\* sentiment; the statistical path is never taken with an empty history and
\* the baseline never with a non-empty one.
C16_NonAiFallback ==
  /\ (svcPc = "done" /\ svcOp \in {"estimatePrice", "getCurrentPrice"}
        /\ aiThrew)
       => /\ estimatedPrice.estimationMethod =
               (IF historicalData # <<>> THEN "historical_average_with_trend"
                ELSE "category_baseline")
          /\ svcOp = "estimatePrice" => svcOutcome = "resolved"
  /\ (svcPc = "done" /\ svcOp = "getMarketSentiment" /\ aiThrew)
       => /\ svcOutcome = "resolved"
          /\ marketSentiment.sentiment = AnalyzeSentiment(priceHistory)
          /\ marketSentiment.factors = IdentifyMarketFactors(priceHistory)
  /\ EstimateReturned
       => /\ estimatedPrice.estimationMethod = "historical_average_with_trend"
               => historicalData # <<>>
          /\ estimatedPrice.estimationMethod = "category_baseline"
               => historicalData = <<>>

C16_Witness ==
  /\ svcPc = "done"
  /\ svcOp = "getMarketSentiment"
  /\ aiThrew
  /\ svcOutcome = "resolved"
  /\ historicalData = <<1000, 3000>>
  /\ marketSentiment.sentiment = "neutral"
  /\ marketSentiment.factors = <<"Stable market conditions",
                                 "Market uncertainty",
                                 "Limited data availability">>

\* C17: every EstimatedPrice estimatePrice returns has confidence <= 0.8, and
\* every getCurrentPrice result with source 'estimated' has confidence
\* strictly below 0.95.
C17_EstimatedConfidenceCapped ==
  /\ EstimateReturned => estimatedPrice.confidence <= 80
  /\ (svcPc = "done" /\ svcOp = "getCurrentPrice" /\ svcOutcome = "resolved"
        /\ svcResult.source = "estimated")
       => svcResult.confidence < 95

\* C18: every EstimatedPrice estimatePrice returns has minimum <= average <=
\* maximum and minimum <= current <= maximum.
C18_EstimateWithinRange ==
  EstimateReturned
  => /\ estimatedPrice.minimum <= estimatedPrice.average
     /\ estimatedPrice.average <= estimatedPrice.maximum
     /\ estimatedPrice.minimum <= estimatedPrice.current
     /\ estimatedPrice.current <= estimatedPrice.maximum

\* C19: every PriceInfo or EstimatedPrice getCurrentPrice or estimatePrice
\* resolves with passes validatePriceData at the moment it is returned,
\* results served from the short-term cache and results of estimatePrice
\* called directly included.
C19_ReturnedDataValidated ==
  /\ (svcPc = "done" /\ svcOp = "getCurrentPrice" /\ svcOutcome = "resolved")
       => ValidatePriceData(svcResult, nowMin)
  /\ (svcPc = "done" /\ svcOp = "estimatePrice" /\ svcOutcome = "resolved")
       => ValidatePriceData(estimatedPrice, nowMin)

\* A ProductQuery with an empty or over-long name, or a quantity outside
\* [0.001, 1000000].
FailsValidation(product) ==
  \/ product.name = ""
  \/ product.name = LongName
  \/ product.quantity < 1
  \/ product.quantity > 1000000

\* An operation of the service is called with a query that fails validation.
CalledWithInvalidQuery ==
  /\ svcPc = "idle"
  /\ svcPc' # "idle"
  /\ FailsValidation(query')

RejectedAtOnce ==
  /\ svcPc' = "done"
  /\ svcOutcome' = "rejected"
  /\ svcError' = <<"Invalid product query">>
  /\ adapterCalls' = 0
  /\ aiCalls' = 0
  /\ priceCache' = priceCache

\* C20: for a ProductQuery that fails validateProductQuery, each of
\* getCurrentPrice, getPriceHistory, estimatePrice and getMarketSentiment
\* rejects with an 'Invalid product query' error before any adapter call, AI
\* call or use of the short-term cache, and leaves the short-term cache
\* unchanged.
C20_InvalidQueryRejectedAtOnce ==
  [][CalledWithInvalidQuery => RejectedAtOnce]_vars

C20_Witness ==
  /\ svcPc = "done"
  /\ svcOp = "getCurrentPrice"
  /\ query.name = "Onion"
  /\ query.quantity = 2000000
  /\ svcOutcome = "rejected"
  /\ svcError = <<"Invalid product query">>
  /\ GenerateCacheKey(query) \in DOMAIN priceCache
  /\ IsCacheValid(priceCache[GenerateCacheKey(query)].timestamp, nowMin)

\* C21 as stated: getPriceHistory with a valid query rejects with 'Days must
\* be between 1 and 365' iff days < 1 or days > 365, without calling the
\* adapter, and otherwise requests the history.
C21_DaysBetween1And365 ==
  (svcPc = "done" /\ svcOp = "getPriceHistory" /\ ValidQuery(query))
  => IF svcDays < 1 * 10 \/ svcDays > 365 * 10
       THEN /\ svcOutcome = "rejected"
            /\ svcError = <<"Days must be between 1 and 365">>
            /\ adapterCalls = 0
       ELSE /\ svcError # <<"Days must be between 1 and 365">>
            /\ adapterCalls = 1

\* The sums of the first and of the last min(7, n) prices of a series: the
\* means r and o are these sums over the same count.
FirstSum(prices) ==
  SumSeq(SubSeq(prices, 1, IF Len(prices) < 7 THEN Len(prices) ELSE 7))

LastSum(prices) ==
  SumSeq(SubSeq(prices, IF Len(prices) < 7 THEN 1 ELSE Len(prices) - 6,
                Len(prices)))

\* C22: for n >= 2 prices, with r the mean of the last min(7, n) and o the
\* mean of the first min(7, n), calculateTrend returns 'rising' iff
\* (r - o) / o > 0.05, 'falling' iff (r - o) / o < -0.05 and 'stable'
\* otherwise; for n < 2 it returns 'stable'; 20, 22, ..., 34 is 'rising'.
C22_TrendClassification ==
  tPc = "done" =>
    LET r == LastSum(tPrices)
        o == FirstSum(tPrices)
    IN /\ Len(tPrices) < 2 => tTrend = "stable"
       /\ Len(tPrices) >= 2 =>
            /\ tTrend = "rising" <=> 100 * (r - o) > 5 * o
            /\ tTrend = "falling" <=> 100 * (r - o) < 0 - 5 * o
            /\ tTrend \in {"rising", "falling", "stable"}
       /\ tPrices = SteadyRise => tTrend = "rising"

\* A series of eight points whose means differ by exactly 5% is stable, one
\* whose means differ by more is rising, and 20, 22, ..., 34 has been
\* classified.
C22_Witness ==
  /\ tPc = "done"
  /\ tPrices = SteadyRise
  /\ tTrend = "rising"

C22_WitnessBoundary ==
  /\ tPc = "done"
  /\ Len(tPrices) = 8
  /\ 100 * (LastSum(tPrices) - FirstSum(tPrices)) = 5 * FirstSum(tPrices)
  /\ tTrend = "stable"

\* getMarketSentiment has resolved after the AI sentiment analysis failed.
StatisticalSentimentReturned ==
  /\ svcPc = "done"
  /\ svcOp = "getMarketSentiment"
  /\ svcOutcome = "resolved"
  /\ aiThrew

\* The volatility of the history fetched is below 0.1 (0 for fewer than two
\* points).
CalmHistory ==
  Len(historicalData) < 2 \/ VolatilityBelow(historicalData, 1, 10)

\* C23: when the AI sentiment analysis fails, getMarketSentiment returns
\* 'bullish' iff the trend is rising and the volatility is below 0.1,
\* 'bearish' iff the trend is falling and the volatility is below 0.1, and
\* 'neutral' otherwise.
C23_StatisticalSentiment ==
  StatisticalSentimentReturned =>
    /\ marketSentiment.sentiment = "bullish"
         <=> (priceHistory.trend = "rising" /\ CalmHistory)
    /\ marketSentiment.sentiment = "bearish"
         <=> (priceHistory.trend = "falling" /\ CalmHistory)
    /\ marketSentiment.sentiment \in {"bullish", "bearish", "neutral"}
    /\ priceHistory.trend = CalculateTrend(historicalData)

\* A rising, volatile history has been judged neutral after the AI failed.
C23_Witness ==
  /\ StatisticalSentimentReturned
  /\ priceHistory.trend = "rising"
  /\ ~CalmHistory
  /\ marketSentiment.sentiment = "neutral"

C23_WitnessBullish ==
  /\ StatisticalSentimentReturned
  /\ marketSentiment.sentiment = "bullish"

C23_WitnessBearish ==
  /\ StatisticalSentimentReturned
  /\ marketSentiment.sentiment = "bearish"

\* x is a number within [lo, hi].
Within(x, lo, hi) == x # NaN /\ lo <= x /\ x <= hi

\* C24 as stated: validatePriceData(p).isValid holds iff the four prices are
\* numbers in [0, 100000], the confidence is in [0, 1], the source is
\* official or estimated, lastUpdated is a valid date not older than 24
\* hours, minimum <= maximum, minimum <= current <= maximum and
\* minimum <= average <= maximum.
C24_ValidIffInRange ==
  vpPc = "done" =>
    ( vpValid <=>
        /\ Within(vpInfo.current, 0, MaxReasonablePrice * 100)
        /\ Within(vpInfo.minimum, 0, MaxReasonablePrice * 100)
        /\ Within(vpInfo.maximum, 0, MaxReasonablePrice * 100)
        /\ Within(vpInfo.average, 0, MaxReasonablePrice * 100)
        /\ Within(vpInfo.confidence, 0, 100)
        /\ vpInfo.source \in {"official", "estimated"}
        /\ Within(vpInfo.lastUpdated, vpNow - 24 * 60, vpInfo.lastUpdated)
        /\ vpInfo.minimum <= vpInfo.maximum
        /\ vpInfo.minimum <= vpInfo.current /\ vpInfo.current <= vpInfo.maximum
        /\ vpInfo.minimum <= vpInfo.average /\ vpInfo.average <= vpInfo.maximum )

\* The step is a cache write that Redis carries out.
CacheWriteStep ==
  /\ pc = "write"
  /\ pc' = "done"
  /\ isConnected
  /\ ~cacheFault

DataMethods == {"get", "set", "invalidate", "clearAll"}

\* C26: the operations of MarketDataCache are non-fatal. Called while the
\* cache is not connected, a get returns null and a set, invalidate or
\* clearAll returns, in each case without a command issued to the client;
\* when a command fails or the stored value cannot be parsed, a get returns
\* null and the others return, and none of them throws.
C26_CacheNonFatal ==
  mcCall.method \in DataMethods =>
    /\ mcOutcome = "resolved"
    /\ ~mcCall.connected => mcCommands = 0
    /\ (mcCall.method = "get" /\ (~mcCall.connected \/ mcCall.threw))
         => mcReturned = Miss(client)

\* A get found a value that does not parse and returned null; a set was
\* called while the cache was not connected.
C26_Witness ==
  /\ mcCall.method = "get"
  /\ mcCall.connected
  /\ mcCall.threw
  /\ store[mcCall.key] = UnparseableEntry
  /\ mcReturned = Miss(client)
  /\ mcOutcome = "resolved"

C26_WitnessNotConnected ==
  /\ mcCall.method \in {"set", "clearAll"}
  /\ ~mcCall.connected
  /\ mcCommands = 0
  /\ mcOutcome = "resolved"

\* The last call of connect(), by the owner or by a retry timer, found the
\* cache disconnected and client.connect() resolved.
ConnectSucceeded ==
  /\ mcCall.method \in {"connect", "retry"}
  /\ ~mcCall.connected
  /\ ~mcCall.threw

\* C27: reconnection is capped. While every attempt to connect fails, at
\* most 5 retries are scheduled, the i-th after 2 * i seconds, and none once
\* the count of failures has passed 5; the cache object stays a no-op store
\* meanwhile; a connect() that succeeds marks the cache connected and resets
\* the retry count to 0.
C27_ReconnectionCapped ==
  [][ /\ Len(retryDelays') <= MaxConnectionRetries
      /\ \A i \in 1..Len(retryDelays') : retryDelays'[i] = 2 * i
      /\ Len(retryDelays') > Len(retryDelays) =>
           /\ Len(retryDelays') = connectionRetries'
           /\ ~isConnected'
      /\ (connectionRetries >= MaxConnectionRetries /\ connectionRetries' # 0)
           => /\ retryTimers' <= retryTimers
              /\ retryDelays' = retryDelays
      /\ ConnectSucceeded' =>
           /\ connectionRetries' = 0
           /\ mcCall' # mcCall => isConnected'
      /\ (~isConnected /\ mcCall'.method \in DataMethods /\ mcCall' # mcCall)
           => store' = store ]_vars

\* Six attempts in a row have failed: five retries were scheduled, none is
\* pending and the cache is not connected.
C27_Witness ==
  /\ connectionRetries = MaxConnectionRetries + 1
  /\ retryDelays = <<2, 4, 6, 8, 10>>
  /\ retryTimers = 0
  /\ ~isConnected

\* A retry has connected after failures.
C27_WitnessReset ==
  /\ mcCall.method = "retry"
  /\ ConnectSucceeded
  /\ isConnected
  /\ connectionRetries = 0

\* Both calls have completed, the second having started while the first was
\* in flight.
OverlappedAndDone ==
  /\ overlapped
  /\ \A c \in 1..2 : calls[c].pc = "done"

OverlapKey == GenerateCacheKey(OverlapQuery)

\* The calls that resolved, in the order they completed.
ResolvedInOrder == SelectSeq(completed, LAMBDA c : calls[c].outcome = "resolved")

\* C28 as stated: when two getCurrentPrice calls for the same uncached key
\* overlap, each calls fetchMandiPrices itself, both resolve with a PriceInfo
\* that passed validation, and afterwards the priceCache holds exactly one
\* entry for the key, equal to the result of the call that completed last.
C28_OverlappingCallsBothResolve ==
  OverlappedAndDone =>
    /\ \A c \in 1..2 :
         /\ calls[c].fetches = 1
         /\ calls[c].outcome = "resolved"
         /\ ValidatePriceData(calls[c].result, calls[c].doneAt)
    /\ DOMAIN priceCache = {OverlapKey}
    /\ priceCache[OverlapKey].data = calls[completed[2]].result

\* C28, amended: when two getCurrentPrice calls for the same uncached key
\* overlap, each calls fetchMandiPrices itself; each of them that resolves
\* does so with a PriceInfo that passed validation; afterwards the
\* priceCache holds no entry for the key if both rejected, and otherwise
\* exactly one, equal to the result of the call that resolved last.
C28_OverlappingCallsIndependent ==
  OverlappedAndDone =>
    /\ \A c \in 1..2 :
         /\ calls[c].fetches = 1
         /\ calls[c].outcome = "resolved"
              => ValidatePriceData(calls[c].result, calls[c].doneAt)
    /\ IF ResolvedInOrder = <<>>
         THEN DOMAIN priceCache = {}
         ELSE /\ DOMAIN priceCache = {OverlapKey}
              /\ priceCache[OverlapKey].data
                   = calls[ResolvedInOrder[Len(ResolvedInOrder)]].result

\* Two overlapping calls have resolved with different results, and the
\* priceCache holds the one of the call that completed last.
C28_Witness ==
  /\ OverlappedAndDone
  /\ \A c \in 1..2 : calls[c].outcome = "resolved"
  /\ calls[1].result # calls[2].result
  /\ priceCache[OverlapKey].data = calls[completed[2]].result

\* The operation has ended after a call of the adapter rejected.
AdapterRejected ==
  /\ svcPc = "done"
  /\ adapterThrew

\* The message of the rejection begins with `<prefix> <name>`.
MessageBegins(prefix) ==
  /\ svcOutcome = "rejected"
  /\ Len(svcError) >= 2
  /\ svcError[1] = prefix
  /\ svcError[2] = query.name

\* C29: if fetchMandiPrices rejects, getCurrentPrice rejects with a message
\* beginning 'Failed to get price for <name>' and estimates nothing; if
\* getHistoricalData rejects, getPriceHistory rejects with 'Failed to get
\* price history for <name>' and estimatePrice with 'Failed to estimate price
\* for <name>'.
C29_AdapterFailurePropagates ==
  AdapterRejected =>
    /\ svcOp = "getCurrentPrice" =>
         /\ MessageBegins("Failed to get price for")
         /\ adapterCalls = 1 =>
              /\ aiCalls = 0
              /\ estimatedPrice = NoEstimate
    /\ svcOp = "getPriceHistory" =>
         MessageBegins("Failed to get price history for")
    /\ svcOp = "estimatePrice" =>
         MessageBegins("Failed to estimate price for")

\* fetchMandiPrices has rejected and getCurrentPrice with it, nothing having
\* been estimated.
C29_Witness ==
  /\ AdapterRejected
  /\ svcOp = "getCurrentPrice"
  /\ adapterCalls = 1
  /\ aiCalls = 0
  /\ svcError = <<"Failed to get price for", "Onion",
                  "Mock API is currently unavailable">>

C29_WitnessHistory ==
  /\ AdapterRejected
  /\ svcOp = "getPriceHistory"
  /\ MessageBegins("Failed to get price history for")

C29_WitnessEstimate ==
  /\ AdapterRejected
  /\ svcOp = "estimatePrice"
  /\ MessageBegins("Failed to estimate price for")

\* C30 as stated: on a cache hit judged fresh, fetchMandiPrices of the
\* cached adapter returns the complete list of records stored in the cache
\* entry for (location, date).
C30_FreshHitReturnsWholeEntry ==
  ( /\ pc = "done"
    /\ op = "fetchMandiPrices"
    /\ srcCalls = 0
    /\ cached.hit
    /\ IsUsableHit(op, cached, clock) )
  => result = cached.value

\* ---------------------------------------------------------------- C31
\* The record's product name contains the query's name or category, or is
\* contained in the query's name, in lower case with the space around them
\* removed.
MatchesQuery(record) ==
  \/ Includes(LowerTrim(record.product), LowerTrim(query.name))
  \/ Includes(LowerTrim(record.product), LowerTrim(query.category))
  \/ Includes(LowerTrim(query.name), LowerTrim(record.product))

\* The positions of the fetched list whose record matches the query.
MatchingPositions == { i \in 1..Len(mandiPrices) : MatchesQuery(mandiPrices[i]) }

FirstMatchingPosition ==
  CHOOSE i \in MatchingPositions : \A j \in MatchingPositions : i <= j

\* C31: getCurrentPrice considers only the first record of the fetched list,
\* in source order, whose product name matches the query (case-insensitive
\* containment after trimming): a result is official, with that record's
\* price, when that record passes the freshness check, and an estimate when
\* it fails it or when no record matches, whatever the later records are.
C31_FirstMatchWins ==
  FetchedAndSettled =>
    /\ matchingPrice = (IF MatchingPositions = {} THEN NoRecord
                        ELSE mandiPrices[FirstMatchingPosition])
    /\ svcOutcome = "resolved" =>
         IF /\ MatchingPositions # {}
            /\ AdapterValidateDataFreshness(adapterKind,
                  mandiPrices[FirstMatchingPosition], nowMin)
           THEN /\ svcResult.source = "official"
                /\ svcResult.current = mandiPrices[FirstMatchingPosition].price
           ELSE svcResult.source = "estimated"

\* The first match is stale and a later record matches and is fresh: the
\* result is an estimate.
C31_Witness ==
  /\ FetchedAndSettled
  /\ svcOutcome = "resolved"
  /\ adapterKind = "cached"
  /\ Len(mandiPrices) = 2
  /\ MatchingPositions = {1, 2}
  /\ ~AdapterValidateDataFreshness(adapterKind, mandiPrices[1], nowMin)
  /\ AdapterValidateDataFreshness(adapterKind, mandiPrices[2], nowMin)
  /\ svcResult.source = "estimated"

\* A record that does not match comes first: the match after it is used,
\* found in spite of its case and of the space around it.
C31_WitnessAfterMismatch ==
  /\ FetchedAndSettled
  /\ svcOutcome = "resolved"
  /\ Len(mandiPrices) = 2
  /\ mandiPrices[1].product = "Rice"
  /\ mandiPrices[2].product = " ONION "
  /\ svcResult.source = "official"
  /\ svcResult.current = 2600

\* The record's name is contained in the query's name, and nothing else
\* matches.
C31_WitnessContained ==
  /\ FetchedAndSettled
  /\ svcOutcome = "resolved"
  /\ query.name = "Red Onion"
  /\ query.category = "spices"
  /\ Len(mandiPrices) = 2
  /\ mandiPrices[1].product = "Onion"
  /\ mandiPrices[2].product = "Red Onion"
  /\ svcResult.source = "official"
  /\ svcResult.current = 2550

\* ---------------------------------------------------------------- C32
\* The priceCache key of a (name, category, location).
KeyOfTriple(t) ==
  GenerateCacheKey([name |-> t[1], category |-> t[2], location |-> t[3]])

\* getCurrentPrice resolved with what the priceCache held.
ServedFromPriceCache ==
  /\ svcPc = "done"
  /\ svcOp = "getCurrentPrice"
  /\ svcOutcome = "resolved"
  /\ adapterCalls = 0

\* C32: the short-term cache is keyed by (name, category, location): the
\* entry a call stored for its (name, category, location) stays as it is
\* until a call with the same three fields stores another, whatever calls
\* with other fields do, and a call is served from the cache only the entry
\* that a call with the same three fields stored.
C32_KeyedByNameCategoryLocation ==
  /\ \A t \in DOMAIN lastResolved :
       /\ KeyOfTriple(t) \in DOMAIN priceCache
       /\ priceCache[KeyOfTriple(t)] =
            [data |-> lastResolved[t].result,
             timestamp |-> lastResolved[t].cachedAt]
  /\ ServedFromPriceCache =>
       /\ QueryTriple(query) \in DOMAIN lastResolved
       /\ svcResult = lastResolved[QueryTriple(query)].result

\* ---------------------------------------------------------------- C33
\* C33: whatever initialize() calls and reads are made on a
\* CachedMarketDataAdapter, one after the other or overlapping, without a
\* cleanup(), the adapter calls MarketDataCache.connect at most once, and
\* `this.client.connect()` is never called while isConnected is set.
C33_InitializedOnce ==
  /\ cacheConnects <= 1
  /\ ~connectedAtConnect

\* ---------------------------------------------------------------- C34
\* A checkApiHealth call of the CachedMarketDataAdapter has ended.
HealthChecked ==
  /\ pc = "done"
  /\ op = "checkApiHealth"

\* C34: checkApiHealth returns a cached health status, true or false,
\* without probing the source; with none cached it probes the source once,
\* without retry, returns what the probe found and writes it to the cache,
\* where Redis keeps it for 300 seconds: every health entry stored has a TTL
\* of 300 seconds and holds the status of the probe that wrote it.
C34_HealthCachedFiveMinutes ==
  [][ /\ HealthChecked' =>
           IF cached'.hit
             THEN /\ result' = cached'.value
                  /\ srcCalls' = 0
                  /\ attemptLog' = <<>>
                  /\ cacheWrites' = 0
             ELSE /\ srcCalls' = 1
                  /\ Len(attemptLog') = 1
                  /\ waits' = <<>>
                  /\ result' = (attemptLog' = <<"ok">> /\ apiData')
                  /\ result' = apiData'
                  /\ cacheWrites' = 1
      /\ (CacheWriteStep /\ op = "checkApiHealth") =>
           /\ store'[HealthKey].present
           /\ store'[HealthKey].payload = result'
           /\ store'[HealthKey].ttl = 300
      /\ store'[HealthKey].present => store'[HealthKey].ttl = 300 ]_vars

\* A cached `false` is returned as it is, the source not being asked.
C34_Witness ==
  /\ HealthChecked
  /\ cached = [hit |-> TRUE, value |-> FALSE]
  /\ result = FALSE
  /\ srcCalls = 0

\* Nothing cached: one probe, which finds the source healthy, and the status
\* is stored.
C34_WitnessProbed ==
  /\ HealthChecked
  /\ ~cached.hit
  /\ attemptLog = <<"ok">>
  /\ result = TRUE
  /\ store[HealthKey].present
  /\ store[HealthKey].payload = TRUE

\* Nothing cached and the probe fails: false, after one attempt.
C34_WitnessProbeFailed ==
  /\ HealthChecked
  /\ ~cached.hit
  /\ attemptLog = <<"network">>
  /\ result = FALSE
  /\ cacheWrites = 1

\* ---------------------------------------------------------------- C35
CatalogOps == {"getSupportedLocations", "getSupportedProducts"}

\* C35: when the catalog request to the source fails and the default catalog
\* is returned, getSupportedLocations and getSupportedProducts of the
\* CachedMarketDataAdapter write nothing to the cache: the cache never holds
\* the default catalog.
C35_DefaultCatalogNotCached ==
  /\ (op \in CatalogOps /\ srcOutcome = "failed") =>
       (pc # "write" /\ cacheWrites = 0)
  /\ \A o \in CatalogOps :
       store[KeyOf(o, NoReq)].present =>
         store[KeyOf(o, NoReq)].payload # GovFallbackValue(o)

\* ---------------------------------------------------------------- C36
\* The step clears the priceCache and touches no call: cleanup().
CleanupStep ==
  /\ priceCache' = <<>>
  /\ UNCHANGED svcCallVars

\* The step stores the validated result of a getCurrentPrice call that
\* resolves under the key of its query, and leaves every other entry alone.
StoresValidatedResult ==
  /\ svcOp' = "getCurrentPrice"
  /\ svcOutcome' = "resolved"
  /\ ValidatePriceData(svcResult', nowMin)
  /\ DOMAIN priceCache' = DOMAIN priceCache \cup {GenerateCacheKey(query)}
  /\ priceCache'[GenerateCacheKey(query)] =
       [data |-> svcResult', timestamp |-> nowMin']
  /\ \A k \in DOMAIN priceCache \ {GenerateCacheKey(query)} :
       priceCache'[k] = priceCache[k]

\* C36: a call that rejects leaves the short-term cache as it was; the cache
\* changes only when a getCurrentPrice call stores a result that passed
\* validatePriceData, under the key of its query, or when cleanup() empties
\* it.
C36_RejectionLeavesCacheUnchanged ==
  [][ /\ svcOutcome' = "rejected" => priceCache' = priceCache
      /\ priceCache' # priceCache => (CleanupStep \/ StoresValidatedResult)
    ]_vars

\* A call rejects, the price built failing validation, while the cache holds
\* the expired entry of an earlier call: the entry is still there.
C36_Witness ==
  /\ svcPc = "done"
  /\ svcOp = "getCurrentPrice"
  /\ svcOutcome = "rejected"
  /\ BuiltInvalidPriceInfo
  /\ GenerateCacheKey(query) \in DOMAIN priceCache
  /\ nowMin - priceCache[GenerateCacheKey(query)].timestamp >= CacheTtlMinutes

\* The adapter rejects while the cache holds an expired entry.
C36_WitnessAdapterFailure ==
  /\ svcPc = "done"
  /\ svcOp = "getCurrentPrice"
  /\ svcOutcome = "rejected"
  /\ adapterThrew
  /\ GenerateCacheKey(query) \in DOMAIN priceCache

\* An invalid query is rejected while the cache is not empty.
C36_WitnessInvalidQuery ==
  /\ svcPc = "done"
  /\ svcOp = "getCurrentPrice"
  /\ svcOutcome = "rejected"
  /\ ~ValidQuery(query)
  /\ priceCache # <<>>

\* ---------------------------------------------------------------- C37
\* C37: once cleanup() has completed the short-term cache stays empty for as
\* long as no getCurrentPrice call is started: a call that was in flight
\* when cleanup() ran stores nothing.
C37_NoRepopulationAfterCleanup ==
  cleanedInFlight => priceCache = <<>>

\* ---------------------------------------------------------------- C38
\* C38: outside the test environment, between two resetInstance() calls all
\* getInstance() calls, overlapping or not, resolve with the same adapter,
\* and at most one adapter is constructed.
C38_GetInstanceSingleton ==
  ~testEnvironment =>
    /\ Cardinality(resolvedSinceReset) <= 1
    /\ Cardinality(madeSinceReset) <= 1

\* ---------------------------------------------------------------- C39
\* C39: for a history of at most 7 points the trend of getPriceHistory,
\* which is calculateTrend of the price points, is 'stable' whatever the
\* prices are (the first-7 and the last-7 windows are the same points);
\* 'rising' or 'falling' is reported only for 8 or more points.
C39_ShortHistoryStable ==
  tPc = "done" =>
    /\ Len(tPrices) <= 7 => tTrend = "stable"
    /\ tTrend \in {"rising", "falling"} => Len(tPrices) >= 8

\* Seven points that end 40% above where they began are stable.
C39_Witness ==
  /\ tPc = "done"
  /\ Len(tPrices) = 7
  /\ tPrices[1] = 1000
  /\ tPrices[7] = 1400
  /\ tTrend = "stable"

\* Two points that differ are stable.
C39_WitnessTwoPoints ==
  /\ tPc = "done"
  /\ tPrices = <<1400, 1000>>
  /\ tTrend = "stable"

\* Eight points have been classified as rising, and eight as falling.
C39_WitnessEightRising ==
  /\ tPc = "done"
  /\ Len(tPrices) = 8
  /\ tTrend = "rising"

C39_WitnessEightFalling ==
  /\ tPc = "done"
  /\ Len(tPrices) = 8
  /\ tTrend = "falling"

====
